---- MODULE Spec2Model ----
(***************************************************************************)
(* Model of sv_manage: the network threads (client_loop), the per-server   *)
(* worker threads (server_main / start_server) and the shared state they   *)
(* communicate through (channels, atomics, the NOTIFICATIONS table, the    *)
(* persisted configuration and the managed directories).                   *)
(***************************************************************************)
EXTENDS Integers, Sequences, FiniteSets, TLC

(* ----------------------------- bounds ---------------------------------- *)
\* number of network connections accepted during one run
MaxConns == 3
\* connections accepted in the specification of the network threads
NetConns == 2
\* connections accepted in the specification of one account's Supervisors
SupConns == 2
\* connections accepted in the specification of three requests
ChanConns == 3
\* connections accepted in the specification of the life cycle
LifeConns == 2
\* connections accepted in the specification of backups and restores
CopyConns == 2
\* connections accepted in the specification of the mod directory
ModConns == 3
\* connections accepted in the specification of the packaged zip
ZipConns == 2
\* connections accepted in the specification of the outbox
OutConns == 3
\* connections accepted in the specification of the listings
PageConns == 2

\* connections accepted in the two-account specification
AcctConns == 2
\* connections accepted in the specification of the failing copies
FailConns == 2
\* threads in the specification of wait_for
WaitConns == 3
\* connections accepted in the specification of the zip cache
CacheConns == 2
\* bytes of a cipher block (stands for the 16 of AES)
BlockBytes == 4
\* width of a byte (stands for 8 bits)
ByteBits == 3
\* width of the length field of a frame (stands for the 32 bits of u32)
LenFieldBits == 5
\* longest payload that is sent
MaxPayload == 6
\* mods in the listed directory in the specification of the listings
PageLen == 3
\* width of the modelled password digest (stands for the 256 bits of SHA-256)
DigestBits == 2
\* how many times a managed process may exit on its own
MaxCrash == 1
\* how many filesystem operations (copy, rename, remove, zip, upload) may fail
MaxIoFail == 1
\* how many times the runner may fail to spawn
MaxSpawnFail == 1
\* number of staged mod archives
MaxStaged == 5
\* width of usize in the page arithmetic (stands for 64)
WordBits == 3

(* ------------------------- configuration ------------------------------- *)
\* sv_manage.json: the accounts, their stored digests and their servers
Accounts == {"alice", "bob"}

Password(a) == IF a = "alice" THEN 1 ELSE 2

ServersOf(a) == IF a = "alice" THEN {"survival", "creative"} ELSE {"survival"}

Servers == UNION {{<<a, n>> : n \in ServersOf(a)} : a \in Accounts}

\* the files of a server's working directory, and their sizes in bytes
WorkFiles == {"level", "props"}

FileSize(f) == IF f = "level" THEN 2 ELSE 1

Conns == 1 .. MaxConns

\* the value of notifLock when no thread holds the NOTIFICATIONS mutex
Free == <<"-", "-">>

Digests == 0 .. (2 ^ DigestBits - 1)

Statuses == {"Idle", "Starting", "Running", "Stopping",
             "BackingUp", "Restoring", "Modding", "Packaging"}

VARIABLES
    conn,           \* client_loop: one record per network thread
    should_run,     \* Shared.should_run
    reboot_queued,  \* Shared.reboot_queued
    status,         \* Shared.status
    mods_up_to_date,\* Shared.mods_up_to_date
    running,        \* the persisted ServerConf.running flags
    cmdq,           \* the Command channel of each server (send_cmd -> recv_cmd)
    respq,          \* the Response channel of each server (send_resp -> recv_resp)
    commLock,       \* Server.comm mutex: 0 or the connection holding it
    worker,         \* server_main: position and locals of each worker thread
    outbox,         \* NOTIFICATIONS: account -> Vec<Notification>
    notifLock,      \* the NOTIFICATIONS mutex: Free or the server whose worker holds it
    fs,             \* the managed directories of each server
    staged,         \* the staged mod archives that exist on disk
    hist            \* history: what has been observed so far (read by the properties only)

vars == <<conn, should_run, reboot_queued, status, mods_up_to_date, running,
          cmdq, respq, commLock, worker, outbox, notifLock, fs, staged, hist>>

sharedVars == <<should_run, reboot_queued, status, mods_up_to_date, running>>
chanVars == <<cmdq, respq, commLock>>
supervisorVars == <<should_run, reboot_queued, status, mods_up_to_date, running,
                    cmdq, respq, commLock, worker, outbox, notifLock, fs, staged>>

(* --------------------------- notifications ----------------------------- *)
\* yapper::Notification, one record shape for every variant
Notif(k, s, old, new, copied, total) ==
    [k |-> k, s |-> s, old |-> old, new |-> new, copied |-> copied, total |-> total]

StatusChanged(s, old, new) == Notif("StatusChanged", s, old, new, 0, 0)
BackupProgress(s, copied, total) == Notif("BackupProgress", s, "-", "-", copied, total)
RestoreProgress(s, copied, total) == Notif("RestoreProgress", s, "-", "-", copied, total)
ZipProgress(s, copied, total) == Notif("ZipProgress", s, "-", "-", copied, total)
BackupFailed(s) == Notif("BackupFailed", s, "-", "-", 0, 0)
RestoreFailed(s) == Notif("RestoreFailed", s, "-", "-", 0, 0)
ZipFailed(s) == Notif("ZipFailed", s, "-", "-", 0, 0)
ZipFile(s) == Notif("ZipFile", s, "-", "-", 0, 0)

is_backup_progress(n) == n.k = "BackupProgress"
is_restore_progress(n) == n.k = "RestoreProgress"
is_package_progress(n) == n.k = "ZipProgress"

\* push_notif: append to the account's vector
push_notif(ob, account, n) == [ob EXCEPT ![account] = Append(@, n)]

\* a search whose predicate accepts every element: the first index, or 0
FirstOfAny(q, k) == IF q # <<>> THEN 1 ELSE 0

\* the first index of q whose element has kind k, or 0
FirstOfKind(q, k) ==
    IF \E i \in 1 .. Len(q) : q[i].k = k
    THEN CHOOSE i \in 1 .. Len(q) : q[i].k = k /\ \A j \in 1 .. (i - 1) : q[j].k # k
    ELSE 0

\* replace_notif_if with the predicates the callers pass (is_*_progress compare the
\* variant only): overwrite the first match, else append
replace_notif_if(ob, account, n) ==
    LET i == FirstOfKind(ob[account], n.k)
    IN  IF i # 0 THEN [ob EXCEPT ![account][i] = n] ELSE push_notif(ob, account, n)

\* a get_notifs that returns a copy of the vector and leaves it in place
get_notifs_peek(ob, account) == ob

\* get_notifs: take the vector, leave an empty one
get_notifs(ob, account) == [ob EXCEPT ![account] = <<>>]

\* get_notifs: the vector it returns
Returned(ob, account) == ob[account]

\* the notifications of q that are not progress notifications
Terminal(q) ==
    SelectSeq(q, LAMBDA n : n.k \notin {"BackupProgress", "RestoreProgress",
                                        "ZipProgress"})

(* ------------------------- Shared::update_status ----------------------- *)
\* the value the status swap leaves
Swapped(s, new) == [status EXCEPT ![s] = new]

\* an update_status that pushes after every swap
ChangesAlways(s, new) == TRUE

\* update_status pushes only when the swap changed the value
Changes(s, new) == status[s] # new

\* the NOTIFICATIONS table after update_status(new) of server s returned
Notified(s, new) ==
    IF Changes(s, new)
    THEN push_notif(outbox, s[1], StatusChanged(s[2], status[s], new))
    ELSE outbox

\* update_status cannot return: it swapped the value and now waits for the
\* NOTIFICATIONS mutex, which a worker holds for ever
Blocks(s, new) == Changes(s, new) /\ notifLock # Free

\* history: the new value of the last StatusChanged pushed for each server
Emitted(s, new) ==
    LET ob == Notified(s, new)
    IN  IF ob # outbox
        THEN [hist EXCEPT !.lastNew[s] = ob[s[1]][Len(ob[s[1]])].new]
        ELSE hist

(* ------------------------- commands and responses ---------------------- *)
\* server_loop::Command / yapper::ServerCommand, one record shape for every variant
Cmd(k, a, b) == [k |-> k, a |-> a, b |-> b]
NoCmd == Cmd("None", 0, 0)

\* yapper::NetCommand
ListServers == [t |-> "ListServers", s |-> "", c |-> NoCmd]
Notifications == [t |-> "Notifications", s |-> "", c |-> NoCmd]
ServerCommand(name, cmd) == [t |-> "ServerCommand", s |-> name, c |-> cmd]

\* yapper::Response; `of` is history: the connection whose command the worker was
\* answering when it produced the value (0 when no worker produced it)
Resp(k, of) == [k |-> k, of |-> of]
NoResp == Resp("None", 0)

\* a request as it travels on the Command channel
Req(cmd, of) == [cmd |-> cmd, of |-> of]
NoReq == Req(NoCmd, 0)

(* ------------------------------- Init ---------------------------------- *)
\* Server::new for every configured server, from a configuration in which the
\* servers of runSet are flagged running, the servers of rconSet enable RCON in
\* server.properties, the servers of bakSet have a backup directory, and the mod
\* directories hold topMods (path/mods) and subMods (path/mods/mods)
InitWith(runSet, rconSet, bakSet, topMods, subMods, stagedSet) ==
    /\ conn = [c \in Conns |->
                 [pc |-> "key", user |-> "", digest |-> 0, account |-> "",
                  login |-> "None", nc |-> ListServers, seen |-> "Idle",
                  resp |-> NoResp, trace |-> <<>>, epoch |-> 0]]
    /\ should_run = [s \in Servers |-> s \in runSet]
    /\ reboot_queued = [s \in Servers |-> FALSE]
    /\ status = [s \in Servers |-> "Idle"]
    /\ mods_up_to_date = [s \in Servers |-> FALSE]
    /\ running = [s \in Servers |-> s \in runSet]
    /\ cmdq = [s \in Servers |-> <<>>]
    /\ respq = [s \in Servers |-> <<>>]
    /\ commLock = [s \in Servers |-> 0]
    /\ worker = [s \in Servers |->
                   [pc |-> "idle", child |-> "none", rcon |-> FALSE, cur |-> NoReq,
                    todo |-> {}, copied |-> 0, total |-> 0, failed |-> FALSE,
                    crashes |-> 0, fails |-> 0, job |-> 0, back |-> "idle"]]
    /\ outbox = [a \in Accounts |-> <<>>]
    /\ notifLock = Free
    /\ fs = [s \in Servers |->
               [work |-> WorkFiles, bakDir |-> s \in bakSet,
                bak |-> IF s \in bakSet THEN WorkFiles ELSE {},
                rconCfg |-> s \in rconSet,
                modsTop |-> topMods, modsSub |-> subMods,
                zip |-> {}]]
    /\ staged = stagedSet
    /\ hist = [lastNew |-> [s \in Servers |-> "Idle"],
               delivered |-> {},
               spawned |-> [s \in Servers |-> 0],
               stopped |-> [s \in Servers |-> FALSE],
               jobs |-> {},
               snap |-> [s \in Servers |-> {}],
               bakState |-> [s \in Servers |-> "none"],
               restored |-> [s \in Servers |-> "none"],
               installed |-> [s \in Servers |-> {}],
               zips |-> [s \in Servers |-> 0],
               pushed |-> [a \in Accounts |-> <<>>],
               page |-> [asked |-> FALSE, per_page |-> 0, page |-> 0, all |-> <<>>,
                         slice |-> <<>>, finish |-> FALSE],
               got |-> [c \in Conns |-> <<>>],
               frame |-> [stage |-> "none", payload |-> <<>>, ser |-> <<>>,
                          plain |-> <<>>, wire |-> [iv |-> 0, len |-> 0, body |-> <<>>],
                          decoded |-> <<>>]]

(* --------------------------- client_loop ------------------------------- *)
\* the account lookup with the digest left out
AccountLookupByName(user, digest) == user \in Accounts

\* the account lookup of the login closure: the account exists and the digests
\* are equal
AccountLookup(user, digest) == user \in Accounts /\ Password(user) = digest

\* the server lookup that does not look at the account
LookupAnyAccount(account, name) == {s \in Servers : s[2] = name}

\* config.accounts.get(username).servers.get(name): the Supervisors the name
\* resolves to for a logged-in account
Lookup(account, name) == {s \in Servers : s[1] = account /\ s[2] = name}

\* the first configured server of that name, whoever owns it
ServerOfAnyAccount(c) == CHOOSE s \in Servers : s[2] = conn[c].nc.s

\* the server the connection's command names, among its account's servers
ServerOf(c) == CHOOSE s \in Lookup(conn[c].account, conn[c].nc.s) : TRUE

\* the Console check that refuses only an idle server
ConsoleRefusedWhenIdle(st) == st = "Idle"

\* the state check in front of Console
ConsoleRefused(st) == st # "Running"

\* no state check in front of Backup and Restore
CopyRefusedNever(st) == FALSE

\* the state check in front of Backup and Restore
CopyRefused(st) == st # "Idle"

\* recv_packet writes the closure's response (Ok or Err side alike) and the
\* connection ends
Respond(c, r) ==
    conn' = [conn EXCEPT ![c].pc = "done", ![c].resp = r,
                         ![c].trace = Append(@, "cmdResp")]

\* the 256-byte key block is read and decrypted (connections are numbered in the
\* order in which the listener accepts them)
ReadKey(c) ==
    /\ conn[c].pc = "key"
    /\ IF c = 1 THEN TRUE ELSE conn[c - 1].pc # "key"
    /\ conn' = [conn EXCEPT ![c].pc = "login", ![c].trace = Append(@, "key")]
    /\ UNCHANGED <<supervisorVars, hist>>

\* the first recv_packet: the login request is read, checked and answered
Login(c, user, digest) ==
    /\ conn[c].pc = "login"
    /\ LET ok == AccountLookup(user, digest)
       IN  conn' = [conn EXCEPT
                      ![c].pc = IF ok THEN "cmd" ELSE "failed",
                      ![c].user = user,
                      ![c].digest = digest,
                      ![c].account = IF ok THEN user ELSE "",
                      ![c].login = IF ok THEN "Ok" ELSE "WrongCredentials",
                      ![c].trace = @ \o <<"loginReq", "loginResp">>]
    /\ UNCHANGED <<supervisorVars, hist>>

\* commands client_loop answers by itself
DispatchLocal(c, nc) ==
    LET found == IF nc.t = "ServerCommand" THEN Lookup(conn[c].account, nc.s) ELSE {}
        srv == CHOOSE s \in found : TRUE
        read == [conn EXCEPT ![c].nc = nc, ![c].trace = Append(@, "cmdReq"),
                             ![c].seen = IF found # {} THEN status[srv] ELSE "Idle"]
        answer(r) == [read EXCEPT ![c].pc = "done", ![c].resp = r,
                                  ![c].trace = Append(@, "cmdResp")]
    IN  CASE nc.t = "ListServers" ->
               /\ conn' = answer(Resp("List", 0))
               /\ UNCHANGED <<supervisorVars, hist>>
          [] nc.t = "Notifications" ->
               /\ conn' = [read EXCEPT ![c].pc = "notifs"]
               /\ UNCHANGED <<supervisorVars, hist>>
          [] nc.t = "ServerCommand" /\ found = {} ->
               /\ conn' = answer(Resp("UnknownServer", 0))
               /\ UNCHANGED <<supervisorVars, hist>>
          [] nc.t = "ServerCommand" /\ found # {} ->
               CASE nc.c.k \in {"Start", "Stop", "Reboot"} ->
                      \* the status was read (line 78); Server::start, stop or
                      \* reboot comes next
                      /\ conn' = [read EXCEPT ![c].pc = "store"]
                      /\ UNCHANGED <<supervisorVars, hist>>
                 [] nc.c.k = "Status" ->
                      /\ conn' = answer(Resp("Status", 0))
                      /\ UNCHANGED <<supervisorVars, hist>>
                 [] nc.c.k = "Console" /\ ConsoleRefused(status[srv]) ->
                      /\ conn' = answer(Resp("InvalidState", 0))
                      /\ UNCHANGED <<supervisorVars, hist>>
                 [] nc.c.k \in {"Backup", "Restore"} /\ CopyRefused(status[srv]) ->
                      /\ conn' = answer(Resp("InvalidState", 0))
                      /\ UNCHANGED <<supervisorVars, hist>>
                 [] OTHER ->
                      \* the command goes to Server::send
                      /\ conn' = [read EXCEPT ![c].pc = "send"]
                      /\ UNCHANGED <<supervisorVars, hist>>

\* the second recv_packet: the NetCommand is read and the closure starts
Dispatch(c, nc) ==
    /\ conn[c].pc = "cmd"
    /\ DispatchLocal(c, nc)

\* Server::start / Server::stop, first half: should_run.store
StoreRun(c) ==
    LET s == ServerOf(c)
        k == conn[c].nc.c.k
    IN  /\ conn[c].pc = "store"
        /\ should_run' = [should_run EXCEPT ![s] = (k # "Stop")]
        /\ conn' = [conn EXCEPT ![c].pc = "persist"]
        /\ hist' = [hist EXCEPT !.stopped[s] = (k = "Stop" /\ conn[c].seen = "Running")]
        /\ UNCHANGED <<reboot_queued, status, mods_up_to_date, running,
                       chanVars, worker, outbox, notifLock, fs, staged>>

\* Server::start / Server::stop, second half: with_config_mut rewrites the
\* running flag; then Start and Stop answer Ok
Persist(c) ==
    /\ conn[c].pc = "persist"
    /\ running' = [running EXCEPT ![ServerOf(c)] = (conn[c].nc.c.k # "Stop")]
    /\ IF conn[c].nc.c.k = "Reboot"
       THEN conn' = [conn EXCEPT ![c].pc = "rebootflag"]
       ELSE Respond(c, Resp("Ok", 0))
    /\ UNCHANGED <<should_run, reboot_queued, status, mods_up_to_date,
                   chanVars, worker, outbox, notifLock, fs, staged, hist>>

\* Server::reboot: after start(), reboot_queued.store(true); answer Ok
RebootFlag(c) ==
    /\ conn[c].pc = "rebootflag"
    /\ reboot_queued' = [reboot_queued EXCEPT ![ServerOf(c)] = TRUE]
    /\ Respond(c, Resp("Ok", 0))
    /\ UNCHANGED <<should_run, status, mods_up_to_date, running,
                   chanVars, worker, outbox, notifLock, fs, staged, hist>>

\* NetCommand::Notifications: get_notifs locks NOTIFICATIONS and drains the
\* account's vector
GetNotifs(c) ==
    /\ conn[c].pc = "notifs"
    /\ notifLock = Free
    /\ outbox' = get_notifs(outbox, conn[c].account)
    /\ Respond(c, Resp("Notifications", 0))
    /\ hist' = [hist EXCEPT !.got[c] = Returned(outbox, conn[c].account)]
    /\ UNCHANGED <<sharedVars, chanVars, worker, notifLock, fs, staged>>

(* ---------------------------- Server::send ----------------------------- *)
\* positions in which the worker does not poll its channel for longer than the
\* caller's 5 s: copying, zipping and uploading, waiting for the child to stop,
\* the 5 s sleep after a failed spawn, and the positions it never leaves
SlowPcs == {"bcopy", "rcopy", "zipping", "upload", "cleanup", "sleep",
            "deadlocked", "blocked", "hung"}

InQueue(s, c) == \E i \in 1 .. Len(cmdq[s]) : cmdq[s][i].of = c

\* recv_timeout can expire: nothing is queued for the caller, and the worker is
\* slow or has consumed the request without answering it
TimeoutPossible(s, c) ==
    /\ respq[s] = <<>>
    /\ \/ worker[s].pc \in SlowPcs
       \/ worker[s].pc = "dead"
       \/ ~InQueue(s, c) /\ worker[s].cur.of # c

\* Server::send, first half: lock comm, send the command on the channel
SendCmd(c) ==
    LET s == ServerOf(c) IN
    /\ conn[c].pc = "send"
    /\ commLock[s] = 0
    /\ IF worker[s].pc = "dead"
       THEN \* the receiver is gone: send fails, the closure maps it to Err
            /\ Respond(c, Resp("Err", 0))
            /\ UNCHANGED <<cmdq, commLock>>
       ELSE /\ conn' = [conn EXCEPT ![c].pc = "wait"]
            /\ cmdq' = [cmdq EXCEPT ![s] = Append(@, Req(conn[c].nc.c, c))]
            /\ commLock' = [commLock EXCEPT ![s] = c]
    /\ UNCHANGED <<sharedVars, respq, worker, outbox, notifLock, fs, staged, hist>>

\* Server::send, second half: recv_timeout returns the next queued Response
RecvResp(c) ==
    LET s == ServerOf(c) IN
    /\ conn[c].pc = "wait"
    /\ respq[s] # <<>>
    /\ Respond(c, Head(respq[s]))
    /\ respq' = [respq EXCEPT ![s] = Tail(@)]
    /\ commLock' = [commLock EXCEPT ![s] = 0]
    /\ UNCHANGED <<sharedVars, cmdq, worker, outbox, notifLock, fs, staged, hist>>

\* Server::send, second half: recv_timeout fails; the closure answers Err
RecvTimeout(c) ==
    LET s == ServerOf(c) IN
    /\ conn[c].pc = "wait"
    /\ TimeoutPossible(s, c)
    /\ Respond(c, Resp("Err", 0))
    /\ commLock' = [commLock EXCEPT ![s] = 0]
    /\ UNCHANGED <<sharedVars, cmdq, respq, worker, outbox, notifLock, fs, staged, hist>>

(* ------------------------- yapper: the frames -------------------------- *)
\* byte values, and the values the length field can hold
ByteMod == 2 ^ ByteBits
LenMod == 2 ^ LenFieldBits

\* the AES key of the connection
FrameKey == 1

Zeros(n) == [i \in 1 .. n |-> 0]

\* Encode: the payload's bytes behind their count
serialize(payload) == <<Len(payload)>> \o payload

\* send_thing: padding = 16 - (vec.len() % 16) zero bytes
pad(vec) == vec \o Zeros(BlockBytes - (Len(vec) % BlockBytes))

\* the padding the cipher adds by itself: n bytes of value n, up to the next
\* block boundary
pkcs7(vec) ==
    LET n == BlockBytes - (Len(vec) % BlockBytes)
    IN  vec \o [i \in 1 .. n |-> n]

unpkcs7(vec) == SubSeq(vec, 1, Len(vec) - vec[Len(vec)])

\* cipher block chaining: every byte is mixed with the key and the byte of
\* ciphertext before it, the first one with the IV
RECURSIVE chain(_, _, _)
chain(key, iv, vec) ==
    IF vec = <<>> THEN <<>>
    ELSE LET rest == chain(key, iv, SubSeq(vec, 1, Len(vec) - 1))
             prev == IF rest = <<>> THEN iv ELSE rest[Len(rest)]
         IN  Append(rest, (vec[Len(vec)] + prev + key) % ByteMod)

unchain(key, iv, vec) ==
    [i \in 1 .. Len(vec) |->
        (vec[i] + 2 * ByteMod - (IF i = 1 THEN iv ELSE vec[i - 1]) - key) % ByteMod]

\* symm::encrypt and symm::decrypt with Cipher::aes_128_cbc
encrypt(key, iv, vec) == chain(key, iv, pkcs7(vec))
decrypt(key, iv, vec) == unpkcs7(unchain(key, iv, vec))

\* a decoder that takes everything behind the count for the payload
decode_to_end(vec) == Tail(vec)

\* Decode: the count, then as many bytes as it says
decode(vec) == SubSeq(vec, 2, vec[1] + 1)

\* send_thing: the IV, the length of the ciphertext as u32, the ciphertext
send_thing(key, iv, payload) ==
    LET body == encrypt(key, iv, pad(serialize(payload)))
    IN  [iv |-> iv, len |-> Len(body) % LenMod, body |-> body]

\* recv_thing: read the IV, the length, that many bytes; decrypt and decode
recv_thing(key, frame) ==
    decode(decrypt(key, frame.iv, SubSeq(frame.body, 1, frame.len)))

\* the payloads and IVs of the frames that are sent; the ciphertext of the
\* longest one is shorter than LenMod, as every packet of the program is
\* shorter than 2^32 bytes
Payloads == UNION {[1 .. n -> {0, 1}] : n \in 0 .. MaxPayload}
IVs == {0, ByteMod - 1}

\* one side sends a packet
FrameSend(payload, iv) ==
    /\ hist.frame.stage \in {"none", "received"}
    /\ hist' = [hist EXCEPT !.frame =
                  [stage |-> "sent", payload |-> payload,
                   ser |-> serialize(payload),
                   plain |-> pad(serialize(payload)),
                   wire |-> send_thing(FrameKey, iv, payload),
                   decoded |-> <<>>]]
    /\ UNCHANGED <<conn, supervisorVars>>

\* the other side receives it
FrameRecv ==
    /\ hist.frame.stage = "sent"
    /\ hist' = [hist EXCEPT !.frame.stage = "received",
                            !.frame.decoded = recv_thing(FrameKey, hist.frame.wire)]
    /\ UNCHANGED <<conn, supervisorVars>>

(* --------------------------- Shared::wait_for -------------------------- *)
\* the server and the predicate of the threads that call Server::wait_for
WaitServer == <<"alice", "survival">>

WaitPredicate(st) == st = "Running"

\* positions in which a thread holds status_notifier_lock
WaitHolds == {"wf_check", "wf_enter"}

\* positions inside wait_for
WaitPcs == {"wf_check", "wf_enter", "asleep"}

\* how many times update_status of server s has called notify_all: once for
\* every StatusChanged it went on to push
Epoch(s) ==
    Len(SelectSeq(hist.pushed[s[1]],
                  LAMBDA n : n.k = "StatusChanged" /\ n.s = s[2]))

\* a thread calls wait_for: status_notifier_lock.lock()
WaitLock(c) ==
    /\ conn[c].pc = "key"
    /\ \A d \in Conns : conn[d].pc \notin WaitHolds
    /\ conn' = [conn EXCEPT ![c].pc = "wf_check", ![c].trace = Append(@, "wait_for")]
    /\ UNCHANGED <<supervisorVars, hist>>

\* the loop condition: status.load, predicate; a true predicate ends wait_for
\* and drops the guard
WaitCheck(c) ==
    /\ conn[c].pc = "wf_check"
    /\ conn' = [conn EXCEPT
                  ![c].seen = status[WaitServer],
                  ![c].pc = IF WaitPredicate(status[WaitServer]) THEN "done"
                            ELSE "wf_enter"]
    /\ UNCHANGED <<supervisorVars, hist>>

\* status_notifier.wait(lock): the guard is released and the thread sleeps;
\* only a notify_all made from now on wakes it
WaitEnter(c) ==
    /\ conn[c].pc = "wf_enter"
    /\ conn' = [conn EXCEPT ![c].pc = "asleep", ![c].epoch = Epoch(WaitServer)]
    /\ UNCHANGED <<supervisorVars, hist>>

\* a notify_all was made while the thread slept: wait returns with the guard
WaitWake(c) ==
    /\ conn[c].pc = "asleep"
    /\ Epoch(WaitServer) > conn[c].epoch
    /\ \A d \in Conns : conn[d].pc \notin WaitHolds
    /\ conn' = [conn EXCEPT ![c].pc = "wf_check"]
    /\ UNCHANGED <<supervisorVars, hist>>

\* Condvar::wait may return without any notification
WaitSpurious(c) ==
    /\ conn[c].pc = "asleep"
    /\ Epoch(WaitServer) = conn[c].epoch
    /\ \A d \in Conns : conn[d].pc \notin WaitHolds
    /\ conn' = [conn EXCEPT ![c].pc = "wf_check"]
    /\ UNCHANGED <<supervisorVars, hist>>

(* ----------------------- worker thread: framework ---------------------- *)
ProgressKinds == {"BackupProgress", "RestoreProgress", "ZipProgress"}

\* the notifications of seq reach the table in order: progress through
\* replace_notif_if, the others through push_notif
RECURSIVE ApplyAll(_, _, _)
ApplyAll(ob, account, seq) ==
    IF seq = <<>> THEN ob
    ELSE ApplyAll(IF Head(seq).k \in ProgressKinds
                  THEN replace_notif_if(ob, account, Head(seq))
                  ELSE push_notif(ob, account, Head(seq)),
                  account, Tail(seq))

\* what one worker step may change, as the worker of s sees it now
Cur(s) ==
    [w |-> worker[s], cq |-> cmdq[s], rq |-> respq[s], fs |-> fs[s], st |-> staged,
     mu |-> mods_up_to_date[s], rb |-> reboot_queued[s], nl |-> notifLock,
     h |-> hist, emit |-> <<>>]

\* One step of the worker of s that calls update_status(new) (new = status[s]
\* when the step calls none): `pre` is what the step has done when the call is
\* made, `post` what it has done at its end, `post.emit` the notifications it
\* pushes after the call. When the NOTIFICATIONS mutex is held for ever the
\* step stops inside the first push, after the status swap.
WStep(s, new, pre, post) ==
    LET stuck == notifLock # Free /\ (Changes(s, new) \/ post.emit # <<>>)
        r == IF stuck THEN [pre EXCEPT !.w.pc = "blocked", !.emit = <<>>] ELSE post
        base == IF stuck /\ Changes(s, new) THEN outbox ELSE Notified(s, new)
    IN  /\ status' = Swapped(s, new)
        /\ worker' = [worker EXCEPT ![s] = r.w]
        /\ cmdq' = [cmdq EXCEPT ![s] = r.cq]
        /\ respq' = [respq EXCEPT ![s] = r.rq]
        /\ fs' = [fs EXCEPT ![s] = r.fs]
        /\ staged' = r.st
        /\ mods_up_to_date' = [mods_up_to_date EXCEPT ![s] = r.mu]
        /\ reboot_queued' = [reboot_queued EXCEPT ![s] = r.rb]
        /\ notifLock' = r.nl
        /\ outbox' = ApplyAll(base, s[1], r.emit)
        /\ hist' = IF stuck /\ Changes(s, new) THEN r.h
                   ELSE [r.h EXCEPT
                           !.lastNew = Emitted(s, new).lastNew,
                           !.pushed[s[1]] =
                               @ \o Terminal(IF Changes(s, new)
                                             THEN <<StatusChanged(s[2], status[s], new)>>
                                             ELSE <<>>)
                                 \o Terminal(r.emit)]
        /\ UNCHANGED <<conn, should_run, running, commLock>>

\* a worker step that calls no update_status
Same(s) == status[s]

(* ------------------------------ mods ----------------------------------- *)
Staging == 1 .. MaxStaged

\* parse_mod of a staged archive: its modId (archives 1 and 2 carry modId 1,
\* archives 3 and 4 modId 2, ...); path 0 is a path with no archive behind it
StagedId(path) == (path + 1) \div 2

parse_mod_ok(st, path) == path \in st

\* the file name install_mod / update_mod try first for preferred name n
\* ("n.jar"), and the only other one they ever try ("n.jar-2.jar")
DestName(n) == 2 * n
AltName(n) == 2 * n + 1

Names(dir) == {m.name : m \in dir}
Ids(dir) == {m.id : m \in dir}

\* the destination-name loop: "free" name found, or 0 when the loop cannot end
Destination(dir, n) ==
    IF DestName(n) \notin Names(dir) THEN DestName(n)
    ELSE IF AltName(n) \notin Names(dir) THEN AltName(n)
    ELSE 0

\* the directory ListMods, QueryMod and gen_mods_zip read: get_mods_path()
ReadDir(f) == f.modsTop
\* the directory install_mod, update_mod and uninstall_mod use:
\* get_mods_path().join("mods")
WriteDir(f) == f.modsSub

MaxWord == 2 ^ WordBits - 1

\* list_mods_paged, the arithmetic: does the call panic?  `checked` is the
\* build's overflow checking (debug: panic on overflow, release: wrap)
list_mods_panics(per_page, page, len, checked) ==
    IF per_page = 0 THEN FALSE
    ELSE LET prod == per_page * page
             offset0 == prod % (MaxWord + 1)
             sum == offset0 + per_page
             end0 == sum % (MaxWord + 1)
             offset == IF offset0 > len THEN len ELSE offset0
             end == IF end0 > len THEN len ELSE end0
         IN  \/ checked /\ (prod > MaxWord \/ sum > MaxWord)
             \/ offset > end

RECURSIVE list_mods(_)
\* list_mods: the mods of the directory, sorted by mod_id
list_mods(dir) ==
    IF dir = {} THEN <<>>
    ELSE LET m == CHOOSE x \in dir : \A y \in dir : x.id <= y.id
         IN  <<m>> \o list_mods(dir \ {m})

\* list_mods_paged when it does not panic: the slice and the last-page flag,
\* with the products and sums of the page arithmetic taken modulo 2^WordBits
list_mods_paged(per_page, page, mods) ==
    IF per_page = 0 THEN [slice |-> mods, finish |-> TRUE]
    ELSE LET offset0 == (per_page * page) % (MaxWord + 1)
             end0 == (offset0 + per_page) % (MaxWord + 1)
             offset == IF offset0 > Len(mods) THEN Len(mods) ELSE offset0
             end == IF end0 > Len(mods) THEN Len(mods) ELSE end0
         IN  [slice |-> IF offset = end THEN <<>> ELSE SubSeq(mods, offset + 1, end),
              finish |-> (end - offset) < per_page]

ModKinds == {"InstallMod", "UpdateMod", "UninstallMod"}

\* an install_mod that does not look for an installed mod of the same modId
ModDecideNoConflict(f, st, cmd) ==
    CASE cmd.k = "InstallMod" ->
           IF ~parse_mod_ok(st, cmd.a) THEN "err" ELSE "go"
      [] cmd.k = "UpdateMod" ->
           IF ~parse_mod_ok(st, cmd.a) THEN "err"
           ELSE IF StagedId(cmd.a) \in Ids(WriteDir(f)) THEN "go" ELSE "nosuch"
      [] OTHER ->
           IF cmd.a \in Ids(WriteDir(f)) THEN "go" ELSE "nosuch"

\* the part of install_mod / update_mod / uninstall_mod before the status
\* changes to Modding: "err" (parse_mod fails), "conflict", "nosuch" or "go"
ModDecide(f, st, cmd) ==
    CASE cmd.k = "InstallMod" ->
           IF ~parse_mod_ok(st, cmd.a) THEN "err"
           ELSE IF StagedId(cmd.a) \in Ids(WriteDir(f)) THEN "conflict" ELSE "go"
      [] cmd.k = "UpdateMod" ->
           IF ~parse_mod_ok(st, cmd.a) THEN "err"
           ELSE IF StagedId(cmd.a) \in Ids(WriteDir(f)) THEN "go" ELSE "nosuch"
      [] OTHER ->
           IF cmd.a \in Ids(WriteDir(f)) THEN "go" ELSE "nosuch"

\* DelOnDrop: the staged file is removed when the guard is dropped unforgiven
DelOnDrop(st, cmd) == IF cmd.k = "UninstallMod" THEN st ELSE st \ {cmd.a}

\* every refusal answered NoSuchMod
DecideRespNoSuch(d) == IF d = "err" THEN "Err" ELSE "NoSuchMod"

\* the Response of a refused mod operation
DecideResp(d) ==
    CASE d = "conflict" -> "ModConflict" [] d = "nosuch" -> "NoSuchMod" [] OTHER -> "Err"

(* ------------------- worker thread: command handling ------------------- *)
\* try_recv returned a command
Pop(s) == [Cur(s) EXCEPT !.cq = Tail(@), !.w.cur = Head(cmdq[s])]

\* send_resp.send(response)
Answer(r, k) == [r EXCEPT !.rq = Append(@, Resp(k, r.w.cur.of)), !.w.cur = NoReq]

\* the command failed inside the running loop: `?` leaves the try block before
\* send_resp.send, nothing is answered
Unanswered(r) == [r EXCEPT !.w.cur = NoReq]

\* query_mod: the mod is in the listed directory
query_mod(f, id) == id \in Ids(ReadDir(f))

\* a Restore that is accepted whether or not there is a backup directory
backup_assumed(f) == TRUE

\* process_command_idle, Restore: backup()?.is_dir()
backup_exists(f) == f.bakDir

\* process_command_idle, every arm that needs no second step
IdleSimple(s) ==
    LET req == Head(cmdq[s])
        k == req.cmd.k
        p == Pop(s)
    IN  CASE k = "Backup" ->
               WStep(s, Same(s), p,
                     [Answer(p, "Ok") EXCEPT !.w.pc = "backup", !.w.job = req.of])
          [] k = "Restore" ->
               IF backup_exists(fs[s])
               THEN WStep(s, Same(s), p,
                          [Answer(p, "Ok") EXCEPT !.w.pc = "restore", !.w.job = req.of])
               ELSE WStep(s, Same(s), p, Answer(p, "NoBackup"))
          [] k = "GenerateModsZip" ->
               WStep(s, Same(s), p,
                     [Answer(p, "Ok") EXCEPT !.w.pc = "zip", !.w.job = req.of])
          [] k = "QueryMod" ->
               WStep(s, Same(s), p,
                     Answer(p, IF query_mod(fs[s], req.cmd.a) THEN "Mod" ELSE "Err"))
          [] OTHER ->
               WStep(s, Same(s), p, Answer(p, "InvalidState"))

\* ListMods in either regime: list_mods_paged answers Mods, or the thread panics
ListStep(s) ==
    LET req == Head(cmdq[s])
        p == Pop(s)
    IN  \E checked \in BOOLEAN :
            IF list_mods_panics(req.cmd.a, req.cmd.b, Cardinality(ReadDir(fs[s])), checked)
            THEN WStep(s, Same(s), p, [p EXCEPT !.w.pc = "dead"])
            ELSE LET mods == list_mods(ReadDir(fs[s]))
                     r == list_mods_paged(req.cmd.a, req.cmd.b, mods)
                     a == Answer(p, "Mods")
                 IN  WStep(s, Same(s), p,
                           [a EXCEPT !.h.page =
                                [asked |-> TRUE, per_page |-> req.cmd.a,
                                 page |-> req.cmd.b, all |-> mods,
                                 slice |-> r.slice, finish |-> r.finish]])

\* InstallMod / UpdateMod / UninstallMod in either regime, up to the first
\* update_status: Modding when the operation goes ahead, else the final
\* update_status(Idle) of the function
ModStep(s, back) ==
    LET req == Head(cmdq[s])
        p == Pop(s)
        d == ModDecide(fs[s], staged, req.cmd)
        dropped == [p EXCEPT !.st = DelOnDrop(staged, req.cmd)]
    IN  IF d = "go"
        THEN WStep(s, "Modding", p, [p EXCEPT !.w.pc = "modding", !.w.back = back])
        ELSE IF back = "loop" /\ d = "err"
        THEN WStep(s, "Idle", dropped, [Unanswered(dropped) EXCEPT !.w.pc = "break"])
        ELSE WStep(s, "Idle", dropped, Answer(dropped, DecideResp(d)))

\* a successful mod operation that leaves the cache flag of the zip alone
InvalidatedNever(mu) == mu

\* shared.mods_up_to_date.store(false) of a successful mod operation
Invalidated(mu) == FALSE

\* the file a staged archive becomes in the mod directory: fs::rename moves the
\* archive `path` to the file name `dest`
Moved(path, dest) == [name |-> dest, id |-> StagedId(path), src |-> path]

\* install_mod: fs::rename into the directory
Installed(dir, new) == dir \cup {new}

\* an update_mod that leaves the old file where it is
UpdatedKeepingOld(dir, old, new) == dir \cup {new}

\* update_mod: fs::remove_file of the old file, then fs::rename
Updated(dir, old, new) == (dir \ {old}) \cup {new}

\* the rest of install_mod / update_mod / uninstall_mod: the file operations,
\* update_status(Idle) and the answer.  ok1: remove_file succeeds, ok2: rename
\* succeeds
ModFinish(s, ok1, ok2) ==
    LET w == worker[s]
        cmd == w.cur.cmd
        dir == WriteDir(fs[s])
        dest == Destination(dir, cmd.b)
        id == IF cmd.k = "UninstallMod" THEN cmd.a ELSE StagedId(cmd.a)
        c == Cur(s)
        failing == ~(ok1 /\ ok2)
        counted == [c EXCEPT !.w.fails = IF failing THEN @ + 1 ELSE @]
        done(r, kind) ==
            IF kind = "Err" /\ w.back = "loop"
            THEN [Unanswered(r) EXCEPT !.w.pc = "break"]
            ELSE [Answer(r, kind) EXCEPT !.w.pc = w.back]
    IN  /\ w.pc = "modding"
        /\ failing => w.fails < MaxIoFail
        /\ CASE cmd.k = "InstallMod" ->
                  /\ ok1
                  /\ IF dest = 0
                     THEN WStep(s, Same(s), c, [c EXCEPT !.w.pc = "hung"])
                     ELSE IF ok2
                     THEN LET r == [counted EXCEPT
                                      !.fs.modsSub = Installed(@, Moved(cmd.a, dest)),
                                      !.st = @ \ {cmd.a},
                                      !.h.installed[s] = @ \cup {id},
                                      !.h.zips[s] = 0,
                                      !.mu = Invalidated(@)]
                          IN  WStep(s, "Idle", r, done(r, "Ok"))
                     ELSE LET r == [counted EXCEPT !.st = @ \ {cmd.a}]
                          IN  WStep(s, "Idle", r, done(r, "Err"))
             [] cmd.k = "UpdateMod" ->
                  IF dest = 0
                  THEN ok1 /\ ok2 /\ WStep(s, Same(s), c, [c EXCEPT !.w.pc = "hung"])
                  ELSE \E old \in {m \in dir : m.id = id} :
                         IF ~ok1
                         THEN /\ ok2
                              /\ LET r == [counted EXCEPT !.st = @ \ {cmd.a}]
                                 IN  WStep(s, "Idle", r, done(r, "Err"))
                         ELSE IF ok2
                         THEN LET r == [counted EXCEPT
                                          !.fs.modsSub = Updated(@, old, Moved(cmd.a, dest)),
                                          !.st = @ \ {cmd.a},
                                          !.h.zips[s] = 0,
                                          !.mu = Invalidated(@)]
                              IN  WStep(s, "Idle", r, done(r, "Ok"))
                         ELSE LET r == [counted EXCEPT !.fs.modsSub = @ \ {old},
                                                       !.h.installed[s] = @ \ {id},
                                                       !.st = @ \ {cmd.a}]
                              IN  WStep(s, "Idle", r, done(r, "Err"))
             [] OTHER ->
                  /\ ok2
                  /\ \E old \in {m \in dir : m.id = id} :
                         IF ok1
                         THEN LET r == [counted EXCEPT !.fs.modsSub = @ \ {old},
                                                       !.h.installed[s] = @ \ {id},
                                                       !.h.zips[s] = 0,
                                                       !.mu = Invalidated(@)]
                              IN  WStep(s, "Idle", r, done(r, "Ok"))
                         ELSE WStep(s, "Idle", counted, done(counted, "Err"))

\* the idle loop of server_main: try_recv, process_command_idle, answer
IdleRecv(s) ==
    /\ worker[s].pc = "idle"
    /\ ~should_run[s]
    /\ cmdq[s] # <<>>
    /\ LET k == Head(cmdq[s]).cmd.k
       IN  CASE k = "ListMods" -> ListStep(s)
             [] k \in ModKinds -> ModStep(s, "idle")
             [] OTHER -> IdleSimple(s)

(* ------------------ worker thread: backup, restore, zip ---------------- *)
RECURSIVE DirSize(_)
\* fs_extra::dir::get_size
DirSize(files) ==
    IF files = {} THEN 0
    ELSE LET f == CHOOSE x \in files : TRUE IN FileSize(f) + DirSize(files \ {f})

\* deferred Backup: update_status(BackingUp), the old backup directory is
\* removed and created again, copy_dir_all computes the total
BackupBegin(s) ==
    /\ worker[s].pc = "backup"
    /\ WStep(s, "BackingUp", Cur(s),
             [Cur(s) EXCEPT !.fs.bakDir = TRUE, !.fs.bak = {},
                            !.w.pc = "bcopy", !.w.todo = fs[s].work,
                            !.w.copied = 0, !.w.total = DirSize(fs[s].work),
                            !.w.failed = FALSE,
                            !.h.jobs = @ \cup {worker[s].job},
                            !.h.snap[s] = fs[s].work,
                            !.h.bakState[s] = "none",
                            !.h.restored[s] = "none"])

\* copy_dir_all_recursive, one directory entry of the backup: fs::copy, then the
\* progress callback
BackupCopy(s, f, ok) ==
    /\ worker[s].pc = "bcopy"
    /\ ~worker[s].failed
    /\ f \in worker[s].todo
    /\ ~ok => worker[s].fails < MaxIoFail
    /\ IF ok
       THEN LET pre == [Cur(s) EXCEPT !.fs.bak = @ \cup {f},
                                      !.w.todo = @ \ {f},
                                      !.w.copied = @ + FileSize(f)]
            IN  WStep(s, Same(s), pre,
                      [pre EXCEPT !.emit = <<BackupProgress(s[2], pre.w.copied,
                                                            pre.w.total)>>])
       ELSE WStep(s, Same(s), Cur(s),
                  [Cur(s) EXCEPT !.w.failed = TRUE, !.w.fails = @ + 1])

\* the end of the deferred Backup: update_status(Idle), then BackupFailed when
\* the try block failed
BackupEnd(s) ==
    /\ worker[s].pc = "bcopy"
    /\ worker[s].failed \/ worker[s].todo = {}
    /\ WStep(s, "Idle", Cur(s),
             [Cur(s) EXCEPT !.w.pc = "idle", !.w.todo = {}, !.w.failed = FALSE,
                            !.w.copied = 0, !.w.total = 0, !.w.job = 0,
                            !.h.bakState[s] = IF worker[s].failed THEN "partial"
                                              ELSE "whole",
                            !.emit = IF worker[s].failed THEN <<BackupFailed(s[2])>>
                                     ELSE <<>>])

\* deferred Restore: the backup directory exists, update_status(Restoring), the
\* working directory is removed and created again
RestoreBegin(s) ==
    /\ worker[s].pc = "restore"
    /\ WStep(s, "Restoring", Cur(s),
             [Cur(s) EXCEPT !.fs.work = {},
                            !.w.pc = "rcopy", !.w.todo = fs[s].bak,
                            !.w.copied = 0, !.w.total = DirSize(fs[s].bak),
                            !.w.failed = FALSE])

\* copy_dir_all_recursive, one directory entry of the restore.  The progress
\* callback locks NOTIFICATIONS and, holding it, calls replace_notif_if, which
\* locks it again: the second lock never returns
RestoreCopy(s, f, ok) ==
    /\ worker[s].pc = "rcopy"
    /\ ~worker[s].failed
    /\ f \in worker[s].todo
    /\ ~ok => worker[s].fails < MaxIoFail
    /\ IF ok
       THEN /\ fs' = [fs EXCEPT ![s].work = @ \cup {f}]
            /\ worker' = [worker EXCEPT
                            ![s].pc = IF notifLock = Free THEN "deadlocked" ELSE "blocked",
                            ![s].todo = @ \ {f},
                            ![s].copied = @ + FileSize(f)]
            /\ notifLock' = IF notifLock = Free THEN s ELSE notifLock
       ELSE /\ worker' = [worker EXCEPT ![s].failed = TRUE, ![s].fails = @ + 1]
            /\ UNCHANGED <<fs, notifLock>>
    /\ UNCHANGED <<conn, sharedVars, chanVars, outbox, staged, hist>>

\* the end of the deferred Restore: update_status(Idle), then RestoreFailed
RestoreEnd(s) ==
    /\ worker[s].pc = "rcopy"
    /\ worker[s].failed \/ worker[s].todo = {}
    /\ WStep(s, "Idle", Cur(s),
             [Cur(s) EXCEPT !.w.pc = "idle", !.w.todo = {}, !.w.failed = FALSE,
                            !.w.copied = 0, !.w.total = 0, !.w.job = 0,
                            !.h.restored[s] = IF worker[s].failed THEN "failed" ELSE "ok",
                            !.emit = IF worker[s].failed THEN <<RestoreFailed(s[2])>>
                                     ELSE <<>>])

\* a deferred GenerateModsZip that never trusts the cache flag
ZipCachedNever(mu) == FALSE

\* deferred GenerateModsZip: shared.mods_up_to_date.load()
ZipCached(mu) == mu

\* deferred GenerateModsZip: with a stale cache update_status(Packaging) and
\* gen_mods_zip, else straight to the upload
ZipBegin(s) ==
    /\ worker[s].pc = "zip"
    /\ IF ZipCached(mods_up_to_date[s])
       THEN WStep(s, Same(s), Cur(s), [Cur(s) EXCEPT !.w.pc = "upload"])
       ELSE WStep(s, "Packaging", Cur(s), [Cur(s) EXCEPT !.w.pc = "zipping"])

\* gen_mods_zip: the archive is truncated, every mod file of the listed
\* directory is written with a progress callback, the cache flag is set
ZipWrite(s, ok) ==
    /\ worker[s].pc = "zipping"
    /\ ~ok => worker[s].fails < MaxIoFail
    /\ IF ok
       THEN LET pre == [Cur(s) EXCEPT !.fs.zip = Names(ReadDir(fs[s]))]
                size == Cardinality(ReadDir(fs[s]))
            IN  WStep(s, Same(s), pre,
                      [pre EXCEPT !.mu = TRUE, !.w.pc = "upload",
                                  !.h.zips[s] = @ + 1,
                                  !.emit = IF size = 0 THEN <<>>
                                           ELSE <<ZipProgress(s[2], size, size)>>])
       ELSE WStep(s, Same(s), Cur(s),
                  [Cur(s) EXCEPT !.fs.zip = {}, !.w.failed = TRUE, !.w.fails = @ + 1,
                                 !.w.pc = "zipend"])

\* upload_zip
Upload(s, ok) ==
    /\ worker[s].pc = "upload"
    /\ ~ok => worker[s].fails < MaxIoFail
    /\ WStep(s, Same(s), Cur(s),
             [Cur(s) EXCEPT !.w.pc = "zipend", !.w.failed = ~ok,
                            !.w.fails = IF ok THEN @ ELSE @ + 1])

\* the end of the deferred GenerateModsZip: update_status(Idle), then ZipFile or
\* ZipFailed
ZipEnd(s) ==
    /\ worker[s].pc = "zipend"
    /\ WStep(s, "Idle", Cur(s),
             [Cur(s) EXCEPT !.w.pc = "idle", !.w.failed = FALSE, !.w.job = 0,
                            !.emit = IF worker[s].failed THEN <<ZipFailed(s[2])>>
                                     ELSE <<ZipFile(s[2])>>])

(* ---------------------- worker thread: start_server -------------------- *)
\* the top of the 'start loop with should_run set (entered from the idle loop
\* or after a cleanup): reboot_queued.store(false), update_status(Starting)
StartTop(s) ==
    /\ worker[s].pc \in {"idle", "start"}
    /\ should_run[s]
    /\ LET pre == [Cur(s) EXCEPT !.rb = FALSE]
       IN  WStep(s, "Starting", pre, [pre EXCEPT !.w.pc = "spawn"])

\* the 'start loop ends because should_run is clear: update_status(Idle), back
\* to the idle loop
StartExit(s) ==
    /\ worker[s].pc = "start"
    /\ ~should_run[s]
    /\ WStep(s, "Idle", Cur(s), [Cur(s) EXCEPT !.w.pc = "idle"])

\* the spawn arm setting Running whatever server.properties says
AfterSpawnRunning(s) == "Running"

\* the status the spawn arm sets: Running at once only without an RCON
\* configuration
AfterSpawn(s) == IF fs[s].rconCfg THEN Same(s) ELSE "Running"

\* process::Command::spawn succeeds
Spawn(s) ==
    /\ worker[s].pc = "spawn"
    /\ LET pre == [Cur(s) EXCEPT !.w.child = "alive", !.w.rcon = FALSE,
                                 !.h.spawned[s] = @ + 1]
       IN  WStep(s, AfterSpawn(s), pre, [pre EXCEPT !.w.pc = "loop"])

\* process::Command::spawn fails: sleep 5 s and continue 'start
SpawnFail(s) ==
    /\ worker[s].pc = "spawn"
    /\ worker[s].fails < MaxSpawnFail
    /\ WStep(s, Same(s), Cur(s), [Cur(s) EXCEPT !.w.pc = "sleep", !.w.fails = @ + 1])

Wake(s) ==
    /\ worker[s].pc = "sleep"
    /\ WStep(s, Same(s), Cur(s), [Cur(s) EXCEPT !.w.pc = "start"])

\* 'server loop: the RCON connection and login succeed: update_status(Running)
LoopRcon(s) ==
    /\ worker[s].pc = "loop"
    /\ should_run[s]
    /\ fs[s].rconCfg
    /\ ~worker[s].rcon
    /\ LET pre == [Cur(s) EXCEPT !.w.rcon = TRUE]
       IN  WStep(s, "Running", pre, pre)

\* 'server loop ends because should_run is clear
LoopStop(s) ==
    /\ worker[s].pc = "loop"
    /\ ~should_run[s]
    /\ WStep(s, "Stopping", Cur(s), [Cur(s) EXCEPT !.w.pc = "cleanup"])

\* 'server loop: reboot_queued.swap(false) returned true
LoopReboot(s) ==
    /\ worker[s].pc = "loop"
    /\ should_run[s]
    /\ reboot_queued[s]
    /\ LET pre == [Cur(s) EXCEPT !.rb = FALSE]
       IN  WStep(s, "Stopping", pre, [pre EXCEPT !.w.pc = "cleanup"])

\* 'server loop: child.try_wait() reports that the process has exited
LoopChildExit(s) ==
    /\ worker[s].pc = "loop"
    /\ worker[s].child = "alive"
    /\ worker[s].crashes < MaxCrash
    /\ LET pre == [Cur(s) EXCEPT !.w.child = "exited", !.w.crashes = @ + 1]
       IN  WStep(s, "Stopping", pre, [pre EXCEPT !.w.pc = "cleanup"])

\* 'server loop: the try block failed (a command returned Err)
LoopBreak(s) ==
    /\ worker[s].pc = "break"
    /\ WStep(s, "Stopping", Cur(s), [Cur(s) EXCEPT !.w.pc = "cleanup"])

\* process_command_inloop, every arm that needs no second step
LoopSimple(s) ==
    LET req == Head(cmdq[s])
        k == req.cmd.k
        p == Pop(s)
    IN  CASE k = "Console" ->
               \* RCON send_command, or a line on the child's stdin
               LET d == [p EXCEPT !.h.delivered = @ \cup {req.of}]
               IN  WStep(s, Same(s), d, Answer(d, "CommandOutput"))
          [] k = "QueryMod" ->
               IF query_mod(fs[s], req.cmd.a)
               THEN WStep(s, Same(s), p, Answer(p, "Mod"))
               ELSE WStep(s, "Stopping", Unanswered(p),
                          [Unanswered(p) EXCEPT !.w.pc = "cleanup"])
          [] k = "GenerateModsZip" ->
               WStep(s, "Packaging", p, Answer(p, "Ok"))
          [] OTHER ->
               WStep(s, Same(s), p, Answer(p, "InvalidState"))

\* 'server loop: try_recv returned a command
LoopRecv(s) ==
    /\ worker[s].pc = "loop"
    /\ should_run[s]
    /\ ~reboot_queued[s]
    /\ cmdq[s] # <<>>
    /\ LET k == Head(cmdq[s]).cmd.k
       IN  CASE k = "ListMods" -> ListStep(s)
             [] k \in ModKinds -> ModStep(s, "loop")
             [] OTHER -> LoopSimple(s)

\* cleanup: the child has exited (by itself, or after "stop" on its stdin), or
\* the 5 minutes ran out and it is killed
Cleanup(s, graceful) ==
    /\ worker[s].pc = "cleanup"
    /\ LET end == IF worker[s].child # "alive" THEN worker[s].child
                  ELSE IF graceful THEN "exited" ELSE "killed"
       IN  WStep(s, Same(s), Cur(s),
                 [Cur(s) EXCEPT !.w.pc = "start", !.w.child = end, !.w.rcon = FALSE])

(* --------------------------- specifications ---------------------------- *)
LoginUsers == Accounts \cup {"mallory"}
ServerNames == {"survival", "creative", "ghost"}
PageArgs == {0, 1, MaxWord}
ModIds == {1}
PrefNames == {1}

LifeCmds == {Cmd("Start", 0, 0), Cmd("Stop", 0, 0), Cmd("Reboot", 0, 0),
             Cmd("Status", 0, 0)}
DirCmds == {Cmd("Console", 0, 0), Cmd("Backup", 0, 0), Cmd("Restore", 0, 0),
            Cmd("GenerateModsZip", 0, 0)}
ListCmds == {Cmd("ListMods", a, b) : a \in PageArgs, b \in PageArgs}
             \cup {Cmd("QueryMod", m, 0) : m \in ModIds \cup {0}}
ModCmds == {Cmd(k, a, b) : k \in {"InstallMod", "UpdateMod"},
                           a \in Staging \cup {0}, b \in PrefNames}
            \cup {Cmd("UninstallMod", m, 0) : m \in ModIds}
AllCmds == LifeCmds \cup DirCmds \cup ListCmds \cup ModCmds

NetCommands(names, cmds) ==
    {ListServers, Notifications} \cup {ServerCommand(n, c) : n \in names, c \in cmds}

\* one step of a network thread that is not inside Server::start, stop or
\* reboot, with the inputs the peer may send
RequestNext(c, users, digests, ncs) ==
    \/ ReadKey(c)
    \/ \E u \in users, d \in digests : Login(c, u, d)
    \/ \E nc \in ncs : Dispatch(c, nc)
    \/ GetNotifs(c)
    \/ SendCmd(c)
    \/ RecvResp(c)
    \/ RecvTimeout(c)

\* one step of a network thread
ConnNext(c, users, digests, ncs) ==
    \/ RequestNext(c, users, digests, ncs)
    \/ StoreRun(c)
    \/ Persist(c)
    \/ RebootFlag(c)

\* one step of a worker thread
WorkerNext(s) ==
    \/ IdleRecv(s)
    \/ \E ok1 \in BOOLEAN, ok2 \in BOOLEAN : ModFinish(s, ok1, ok2)
    \/ BackupBegin(s)
    \/ \E f \in WorkFiles, ok \in BOOLEAN : BackupCopy(s, f, ok)
    \/ BackupEnd(s)
    \/ RestoreBegin(s)
    \/ \E f \in WorkFiles, ok \in BOOLEAN : RestoreCopy(s, f, ok)
    \/ RestoreEnd(s)
    \/ ZipBegin(s)
    \/ \E ok \in BOOLEAN : ZipWrite(s, ok)
    \/ \E ok \in BOOLEAN : Upload(s, ok)
    \/ ZipEnd(s)
    \/ StartTop(s)
    \/ StartExit(s)
    \/ Spawn(s)
    \/ SpawnFail(s)
    \/ Wake(s)
    \/ LoopRcon(s)
    \/ LoopStop(s)
    \/ LoopReboot(s)
    \/ LoopChildExit(s)
    \/ LoopBreak(s)
    \/ LoopRecv(s)
    \/ \E g \in BOOLEAN : Cleanup(s, g)

InitMods == {[name |-> 9, id |-> 1, src |-> 0]}

Init == InitWith({}, {}, {}, InitMods, {}, Staging)

AnyCmd(account) == NetCommands(ServerNames, AllCmds)

Next ==
    \/ \E c \in Conns : ConnNext(c, LoginUsers, Digests, AnyCmd(conn[c].account))
    \/ \E s \in Servers : WorkerNext(s)

Spec == Init /\ [][Next]_vars

(* ------------- the network threads and the server life cycle ----------- *)
\* one command of every kind
KindCmds ==
    LifeCmds \cup DirCmds
      \cup {Cmd("ListMods", 0, 0), Cmd("QueryMod", 1, 0), Cmd("InstallMod", 1, 1),
            Cmd("UpdateMod", 1, 1), Cmd("UninstallMod", 1, 0)}

\* alice sends the life-cycle commands and Console to her survival server and
\* every kind of command to a name nobody has; bob sends every kind of command
\* to that name and to the name of alice's other server
NetCmds(account) ==
    IF account = "alice"
    THEN NetCommands({"ghost"}, KindCmds)
           \cup NetCommands({"survival"}, LifeCmds \cup {Cmd("Console", 0, 0)})
    ELSE NetCommands({"ghost", "creative"}, KindCmds)

\* one step of a worker thread that is asked for nothing but the life cycle
LifeNext(s) ==
    \/ IdleRecv(s)
    \/ StartTop(s)
    \/ StartExit(s)
    \/ Spawn(s)
    \/ SpawnFail(s)
    \/ Wake(s)
    \/ LoopStop(s)
    \/ LoopReboot(s)
    \/ LoopChildExit(s)
    \/ LoopRecv(s)
    \/ \E g \in BOOLEAN : Cleanup(s, g)

\* alice's survival server is configured as running
InitNet == InitWith({<<"alice", "survival">>}, {}, {}, InitMods, {}, {})

NextNet ==
    \/ \E c \in 1 .. NetConns : ConnNext(c, LoginUsers, Digests, NetCmds(conn[c].account))
    \/ \E s \in Servers : LifeNext(s)

SpecNet == InitNet /\ [][NextNet]_vars

(* ------------------- one account and its two Supervisors --------------- *)
\* alice sends her survival server the life-cycle commands, the four direct
\* commands, listings that succeed, fail and overflow, and mod operations on
\* archives that exist and do not; she starts and stops her creative server and
\* collects her notifications
SupCmds(account) ==
    {Notifications}
      \cup NetCommands({"survival"},
             {Cmd("Start", 0, 0), Cmd("Stop", 0, 0), Cmd("Reboot", 0, 0)}
               \cup DirCmds
               \cup {Cmd("ListMods", 0, 0), Cmd("ListMods", 1, MaxWord),
                     Cmd("QueryMod", 1, 0), Cmd("QueryMod", 0, 0),
                     Cmd("InstallMod", 1, 1), Cmd("InstallMod", 0, 1),
                     Cmd("UpdateMod", 2, 1), Cmd("UninstallMod", 1, 0)})
      \cup NetCommands({"creative"}, {Cmd("Start", 0, 0), Cmd("Stop", 0, 0)})

\* survival has a backup, creative configures RCON, no mod is installed
InitSup ==
    InitWith({}, {<<"alice", "creative">>}, {<<"alice", "survival">>},
             InitMods, {}, Staging)

NextSup ==
    \/ \E c \in 1 .. SupConns : ConnNext(c, {"alice"}, {Password("alice")}, SupCmds(conn[c].account))
    \/ \E s \in Servers : WorkerNext(s)

SpecSup == InitSup /\ [][NextSup]_vars

(* ------------------ three requests to one idle Supervisor -------------- *)
\* alice asks her survival server, which stays idle, for backups and listings
ChanCmds(account) ==
    NetCommands({"survival"}, {Cmd("Backup", 0, 0), Cmd("ListMods", 0, 0)})

InitChan == InitWith({}, {}, {}, InitMods, {}, {})

\* the worker of a server that is asked for nothing but backups and listings
ChanWorker(s) ==
    \/ IdleRecv(s)
    \/ BackupBegin(s)
    \/ \E f \in WorkFiles, ok \in BOOLEAN : BackupCopy(s, f, ok)
    \/ BackupEnd(s)

NextChan ==
    \/ \E c \in 1 .. ChanConns :
          RequestNext(c, {"alice"}, {Password("alice")}, ChanCmds(conn[c].account))
    \/ \E s \in Servers : ChanWorker(s)

SpecChan == InitChan /\ [][NextChan]_vars

(* --------------- the life cycle under fair scheduling ------------------- *)
\* alice's survival server gets the life-cycle commands and the installation
\* of a staged mod; her creative server is restored from its backup
LifeCmdsOf(account) ==
    NetCommands({"survival"},
                {Cmd("Start", 0, 0), Cmd("Stop", 0, 0), Cmd("Reboot", 0, 0),
                 Cmd("InstallMod", 1, 1)})
      \cup NetCommands({"creative"}, {Cmd("Restore", 0, 0)})

\* survival is configured as running, creative has a backup
InitLife ==
    InitWith({<<"alice", "survival">>}, {}, {<<"alice", "creative">>},
             InitMods, {}, Staging)

\* the worker: no spawn fails, no child exits unasked, RCON is not configured
LifeWorker(s) ==
    \/ IdleRecv(s)
    \/ \E ok1 \in BOOLEAN, ok2 \in BOOLEAN : ModFinish(s, ok1, ok2)
    \/ RestoreBegin(s)
    \/ \E f \in WorkFiles, ok \in BOOLEAN : RestoreCopy(s, f, ok)
    \/ RestoreEnd(s)
    \/ StartTop(s)
    \/ StartExit(s)
    \/ Spawn(s)
    \/ LoopStop(s)
    \/ LoopReboot(s)
    \/ LoopBreak(s)
    \/ LoopRecv(s)
    \/ \E g \in BOOLEAN : Cleanup(s, g)

LifeConn(c) == ConnNext(c, {"alice"}, {Password("alice")}, LifeCmdsOf(conn[c].account))

NextLife ==
    \/ \E c \in 1 .. LifeConns : LifeConn(c)
    \/ \E s \in Servers : LifeWorker(s)

\* every thread that can take a step eventually takes one
FairLife ==
    /\ InitLife /\ [][NextLife]_vars
    /\ \A c \in 1 .. LifeConns : WF_vars(LifeConn(c))
    /\ \A s \in Servers : WF_vars(LifeWorker(s))

(* ------------- backups and restores under fair scheduling --------------- *)
\* alice asks her survival server, which stays idle, for backups and restores
CopyCmds(account) ==
    NetCommands({"survival"}, {Cmd("Backup", 0, 0), Cmd("Restore", 0, 0)})

\* no server has a backup directory
InitCopy == InitWith({}, {}, {}, InitMods, {}, {})

\* the worker of a server that is asked for nothing but backups and restores
CopyWorker(s) ==
    \/ IdleRecv(s)
    \/ BackupBegin(s)
    \/ \E f \in WorkFiles, ok \in BOOLEAN : BackupCopy(s, f, ok)
    \/ BackupEnd(s)
    \/ RestoreBegin(s)
    \/ \E f \in WorkFiles, ok \in BOOLEAN : RestoreCopy(s, f, ok)
    \/ RestoreEnd(s)

CopyConn(c) ==
    RequestNext(c, {"alice"}, {Password("alice")}, CopyCmds(conn[c].account))

NextCopy ==
    \/ \E c \in 1 .. CopyConns : CopyConn(c)
    \/ \E s \in Servers : CopyWorker(s)

\* every thread that can take a step eventually takes one
FairCopy ==
    /\ InitCopy /\ [][NextCopy]_vars
    /\ \A c \in 1 .. CopyConns : WF_vars(CopyConn(c))
    /\ \A s \in Servers : WF_vars(CopyWorker(s))

(* ------------------- the mod directory of one idle server -------------- *)
\* the staged archives 1, 3 and 5 carry three different modIds, archive 2 the
\* modId of archive 1; all are installed under the same preferred name
ModsCmds ==
    {Cmd("InstallMod", a, 1) : a \in {1, 2, 3, 5}}
      \cup {Cmd("UpdateMod", 2, 1), Cmd("UninstallMod", 1, 0)}

\* both mod directories are empty, every archive is staged
InitModsSpec == InitWith({}, {}, {}, {}, {}, Staging)

\* the worker of a server that is asked for nothing but mod operations
ModsWorker(s) ==
    \/ IdleRecv(s)
    \/ \E ok1 \in BOOLEAN, ok2 \in BOOLEAN : ModFinish(s, ok1, ok2)

\* a network thread whose peer sends mod operations to alice's survival server
ModsConn(c) ==
    \/ ReadKey(c)
    \/ Login(c, "alice", Password("alice"))
    \/ \E cmd \in ModsCmds : Dispatch(c, ServerCommand("survival", cmd))
    \/ SendCmd(c)
    \/ RecvResp(c)
    \/ RecvTimeout(c)

NextMods ==
    \/ \E c \in 1 .. ModConns : ModsConn(c)
    \/ \E s \in Servers : ModsWorker(s)

SpecMods == InitModsSpec /\ [][NextMods]_vars

(* ------------- the packaged zip under fair scheduling ------------------- *)
\* alice's creative server, idle, is asked for the zip and for mod operations
\* that succeed, conflict and find nothing; her survival server, running, is
\* asked for the zip
ZipCmds ==
    {ServerCommand("creative", cmd) :
        cmd \in {Cmd("GenerateModsZip", 0, 0), Cmd("InstallMod", 3, 1),
                 Cmd("InstallMod", 1, 1), Cmd("UninstallMod", 1, 0),
                 Cmd("UninstallMod", 2, 0)}}
      \cup {ServerCommand("survival", Cmd("GenerateModsZip", 0, 0))}

\* survival is configured as running; both mod directories hold one mod
InitZip ==
    InitWith({<<"alice", "survival">>}, {}, {}, InitMods, InitMods, Staging)

\* the worker: the spawn succeeds, the child stays alive, nobody stops it
ZipWorker(s) ==
    \/ IdleRecv(s)
    \/ \E ok1 \in BOOLEAN, ok2 \in BOOLEAN : ModFinish(s, ok1, ok2)
    \/ ZipBegin(s)
    \/ \E ok \in BOOLEAN : ZipWrite(s, ok)
    \/ \E ok \in BOOLEAN : Upload(s, ok)
    \/ ZipEnd(s)
    \/ StartTop(s)
    \/ Spawn(s)
    \/ LoopRecv(s)

ZipConn(c) ==
    \/ ReadKey(c)
    \/ Login(c, "alice", Password("alice"))
    \/ \E nc \in ZipCmds : Dispatch(c, nc)
    \/ SendCmd(c)
    \/ RecvResp(c)
    \/ RecvTimeout(c)

NextZip ==
    \/ \E c \in 1 .. ZipConns : ZipConn(c)
    \/ \E s \in Servers : ZipWorker(s)

\* every thread that can take a step eventually takes one
FairZip ==
    /\ InitZip /\ [][NextZip]_vars
    /\ \A c \in 1 .. ZipConns : WF_vars(ZipConn(c))
    /\ \A s \in Servers : WF_vars(ZipWorker(s))

(* ---------------- one account's outbox and its two servers ------------- *)
\* alice asks both her servers, which stay idle, for backups, and collects
\* her notifications
OutCmds(account) ==
    NetCommands({"survival", "creative"}, {Cmd("Backup", 0, 0)})

InitOut == InitWith({}, {}, {}, InitMods, {}, {})

OutConn(c) ==
    RequestNext(c, {"alice"}, {Password("alice")}, OutCmds(conn[c].account))

NextOut ==
    \/ \E c \in 1 .. OutConns : OutConn(c)
    \/ \E s \in Servers : ChanWorker(s)

SpecOut == InitOut /\ [][NextOut]_vars

(* ------------------------ listings of one idle server ------------------ *)
\* alice asks her survival server for pages of 0, 1 and 2 mods
PageCmds ==
    {ServerCommand("survival", Cmd("ListMods", n, i)) :
        n \in {0, 1, 2}, i \in {0, 1, 2, (MaxWord + 1) \div 2}}

\* the listed directory holds PageLen mods
PageMods == {[name |-> n, id |-> n, src |-> 0] : n \in 1 .. PageLen}

InitPage == InitWith({}, {}, {}, PageMods, {}, {})

PageConn(c) ==
    \/ ReadKey(c)
    \/ Login(c, "alice", Password("alice"))
    \/ \E nc \in PageCmds : Dispatch(c, nc)
    \/ SendCmd(c)
    \/ RecvResp(c)
    \/ RecvTimeout(c)

NextPage ==
    \/ \E c \in 1 .. PageConns : PageConn(c)
    \/ \E s \in Servers : IdleRecv(s)

SpecPage == InitPage /\ [][NextPage]_vars

(* --------------- two accounts with a server of the same name ----------- *)
\* alice and bob each own a server called survival; each asks it to start, stop,
\* reboot and back up, and collects the notifications
AcctCmds ==
    {Notifications}
      \cup {ServerCommand("survival", Cmd(k, 0, 0)) :
              k \in {"Start", "Stop", "Reboot", "Backup"}}

InitAcct == InitWith({}, {}, {}, InitMods, {}, {})

AcctConn(c) ==
    \/ ReadKey(c)
    \/ \E u \in Accounts : Login(c, u, Password(u))
    \/ \E nc \in AcctCmds : Dispatch(c, nc)
    \/ StoreRun(c)
    \/ Persist(c)
    \/ RebootFlag(c)
    \/ GetNotifs(c)
    \/ SendCmd(c)
    \/ RecvResp(c)
    \/ RecvTimeout(c)

AcctWorker(s) ==
    \/ LifeNext(s)
    \/ BackupBegin(s)
    \/ \E f \in WorkFiles, ok \in BOOLEAN : BackupCopy(s, f, ok)
    \/ BackupEnd(s)

NextAcct ==
    \/ \E c \in 1 .. AcctConns : AcctConn(c)
    \/ \E s \in Servers : AcctWorker(s)

SpecAcct == InitAcct /\ [][NextAcct]_vars

(* ------------ a backup beside a restore, under fair scheduling ---------- *)
\* alice asks her survival server for a backup and her creative server, which
\* has a backup directory, for a restore
FailCmds ==
    {ServerCommand("survival", Cmd("Backup", 0, 0)),
     ServerCommand("creative", Cmd("Restore", 0, 0))}

InitFail == InitWith({}, {}, {<<"alice", "creative">>}, InitMods, {}, {})

FailConn(c) ==
    \/ ReadKey(c)
    \/ Login(c, "alice", Password("alice"))
    \/ \E nc \in FailCmds : Dispatch(c, nc)
    \/ SendCmd(c)
    \/ RecvResp(c)
    \/ RecvTimeout(c)

NextFail ==
    \/ \E c \in 1 .. FailConns : FailConn(c)
    \/ \E s \in Servers : CopyWorker(s)

\* every thread that can take a step eventually takes one
FairFail ==
    /\ InitFail /\ [][NextFail]_vars
    /\ \A c \in 1 .. FailConns : WF_vars(FailConn(c))
    /\ \A s \in Servers : WF_vars(CopyWorker(s))

(* ------------------ threads that wait for a status --------------------- *)
\* alice starts her survival server while other threads wait for it to run
InitWaits == InitWith({}, {}, {}, InitMods, {}, {})

WaitConn(c) ==
    \/ ReadKey(c)
    \/ Login(c, "alice", Password("alice"))
    \/ Dispatch(c, ServerCommand("survival", Cmd("Start", 0, 0)))
    \/ StoreRun(c)
    \/ Persist(c)
    \/ WaitLock(c)
    \/ WaitCheck(c)
    \/ WaitEnter(c)
    \/ WaitWake(c)

WaitWorker(s) ==
    \/ StartTop(s)
    \/ Spawn(s)
    \/ SpawnFail(s)
    \/ Wake(s)

NextWaits ==
    \/ \E c \in 1 .. WaitConns : WaitConn(c) \/ WaitSpurious(c)
    \/ \E s \in Servers : WaitWorker(s)

\* every thread that can take a step eventually takes one; no wait is assumed
\* to return without a notification
FairWaits ==
    /\ InitWaits /\ [][NextWaits]_vars
    /\ \A c \in 1 .. WaitConns : WF_vars(WaitConn(c))
    /\ \A s \in Servers : WF_vars(WaitWorker(s))

(* ------------------------- frames on one connection -------------------- *)
InitFrame == InitWith({}, {}, {}, InitMods, {}, {})

NextFrame ==
    \/ \E payload \in Payloads, iv \in IVs : FrameSend(payload, iv)
    \/ FrameRecv

SpecFrame == InitFrame /\ [][NextFrame]_vars

(* ---------------- the zip cache of one idle server ---------------------- *)
\* alice asks her idle creative server for the zip and for an update and an
\* uninstallation of the mod it has
CacheCmds ==
    {ServerCommand("creative", cmd) :
        cmd \in {Cmd("GenerateModsZip", 0, 0), Cmd("UpdateMod", 2, 1),
                 Cmd("UninstallMod", 1, 0)}}

\* both mod directories hold the same mod
InitCache == InitWith({}, {}, {}, InitMods, InitMods, Staging)

CacheConn(c) ==
    \/ ReadKey(c)
    \/ Login(c, "alice", Password("alice"))
    \/ \E nc \in CacheCmds : Dispatch(c, nc)
    \/ SendCmd(c)
    \/ RecvResp(c)
    \/ RecvTimeout(c)

\* the worker: file operations, zipping and uploading may fail
CacheWorker(s) ==
    \/ IdleRecv(s)
    \/ \E ok1 \in BOOLEAN, ok2 \in BOOLEAN : ModFinish(s, ok1, ok2)
    \/ ZipBegin(s)
    \/ \E ok \in BOOLEAN : ZipWrite(s, ok)
    \/ \E ok \in BOOLEAN : Upload(s, ok)
    \/ ZipEnd(s)

NextCache ==
    \/ \E c \in 1 .. CacheConns : CacheConn(c)
    \/ \E s \in Servers : CacheWorker(s)

SpecCache == InitCache /\ [][NextCache]_vars

(* ----------------------------- properties ------------------------------ *)
\* the connection's thread takes a step
Moves(c) == conn'[c] # conn[c]

\* C1: a login is answered Ok exactly when the received username is in the
\* account table and the received digest equals the stored one; otherwise it is
\* answered WrongCredentials, the step changes no Supervisor, and from then on
\* the connection's thread does nothing more (it reads no NetCommand and
\* touches no flag, status or outbox), whatever other connections did before
C1_LoginDecides ==
    [][\A c \in Conns :
         /\ conn[c].pc = "login" /\ Moves(c) =>
               LET u == conn'[c].user
                   known == u \in Accounts /\ conn'[c].digest = Password(u)
               IN  /\ conn'[c].login = "Ok" <=> known
                   /\ known => conn'[c].pc = "cmd" /\ conn'[c].account = u
                   /\ ~known => conn'[c].login = "WrongCredentials" /\ conn'[c].pc = "failed"
                   /\ UNCHANGED supervisorVars
         /\ conn[c].pc = "failed" => ~Moves(c)]_vars

\* a wrong digest for alice was refused on one connection, her right digest is
\* accepted on a later one, and her server has been started in between
C1_Witness ==
    \E c1 \in Conns, c2 \in Conns :
        /\ c1 < c2
        /\ conn[c1].login = "WrongCredentials" /\ conn[c1].user = "alice"
        /\ conn[c1].pc = "failed" /\ conn[c1].trace = <<"key", "loginReq", "loginResp">>
        /\ conn[c2].login = "Ok" /\ conn[c2].user = "alice"
        /\ status[<<"alice", "survival">>] = "Running"

\* the events of a connection that runs to its end
FullTrace == <<"key", "loginReq", "loginResp", "cmdReq", "cmdResp">>

\* C2: after a successful login exactly one NetCommand is read and exactly one
\* Response is written, whatever the command and its outcome; the events of a
\* connection come in the order key, login request, login response, command
\* request, command response
C2_OneResponse ==
    /\ [](\A c \in Conns : conn[c].trace = SubSeq(FullTrace, 1, Len(conn[c].trace)))
    /\ \A c \in Conns : (conn[c].login = "Ok") ~> (conn[c].trace = FullTrace)

\* C3: the Response Server::send returns to a caller is the one the worker
\* produced for that caller's command
C3_OwnResponse ==
    \A c \in Conns :
        conn[c].pc = "done" /\ conn[c].resp.of # 0 => conn[c].resp.of = c

\* the StatusChanged entries of server s that wait in its account's outbox
StatusEntries(ob, s) ==
    SelectSeq(ob[s[1]], LAMBDA n : n.k = "StatusChanged" /\ n.s = s[2])

\* no waiting entry repeats a status, the entries of one server chain, and the
\* newest one ends in the server's status (unless update_status has swapped
\* the status and waits for the NOTIFICATIONS mutex)
C4_Chained ==
    \A s \in Servers :
        LET q == StatusEntries(outbox, s)
        IN  /\ \A i \in 1 .. Len(q) : q[i].old # q[i].new
            /\ \A i \in 1 .. (Len(q) - 1) : q[i].new = q[i + 1].old
            /\ q # <<>> /\ worker[s].pc # "blocked" => q[Len(q)].new = status[s]

\* a step that changes a server's status appends StatusChanged(server, old,
\* new) and nothing else about that server (unless update_status has to wait
\* for the NOTIFICATIONS mutex after the swap); a step that leaves the status
\* alone appends nothing about it; only collecting the outbox removes entries
C4_Appended ==
    \A s \in Servers :
        LET q == StatusEntries(outbox, s)
            q2 == StatusEntries(outbox', s)
        IN  IF conn' # conn
            THEN status'[s] = status[s] /\ (q2 = q \/ outbox'[s[1]] = <<>>)
            ELSE IF status'[s] # status[s] /\ worker'[s].pc # "blocked"
            THEN q2 = Append(q, StatusChanged(s[2], status[s], status'[s]))
            ELSE q2 = q

\* C4: update_status appends StatusChanged(server, old, new) to the owning
\* account's outbox exactly when old differs from new; no outbox ever holds an
\* entry with old = new; for one server the new status of each entry is the
\* old status of the next
C4_StatusChanged == []C4_Chained /\ [][C4_Appended]_vars

\* alice's outbox holds the two entries of survival's start with an entry of
\* creative in between
C4_Witness ==
    \E i, j, k \in 1 .. Len(outbox["alice"]) :
        /\ i < j /\ j < k
        /\ outbox["alice"][i] = StatusChanged("survival", "Idle", "Starting")
        /\ outbox["alice"][j].k = "StatusChanged" /\ outbox["alice"][j].s = "creative"
        /\ outbox["alice"][k] = StatusChanged("survival", "Starting", "Running")

\* C5: a Console command read while the server's status is not Running is
\* answered InvalidState in the same step; nothing is put on the worker's
\* channel, nothing reaches the child's stdin or RCON, no Supervisor changes
C5_ConsoleNeedsRunning ==
    [][\A c \in Conns :
         (/\ conn[c].pc = "cmd" /\ Moves(c)
          /\ conn'[c].nc.t = "ServerCommand" /\ conn'[c].nc.c.k = "Console"
          /\ conn'[c].nc.s \in ServersOf(conn[c].account)
          /\ status[<<conn[c].account, conn'[c].nc.s>>] # "Running")
         => /\ conn'[c].pc = "done"
            /\ conn'[c].resp = Resp("InvalidState", 0)
            /\ conn'[c].trace = Append(conn[c].trace, "cmdReq") \o <<"cmdResp">>
            /\ UNCHANGED <<supervisorVars, hist>>]_vars

\* a Console command met the status Starting and was refused
C5_Witness ==
    \E c \in Conns :
        /\ conn[c].pc = "done" /\ conn[c].nc.t = "ServerCommand"
        /\ conn[c].nc.c.k = "Console" /\ conn[c].seen = "Starting"
        /\ conn[c].resp = Resp("InvalidState", 0)
        /\ c \notin hist.delivered

\* C6: a ServerCommand whose name is not among the logged-in account's servers
\* is answered UnknownServer in the same step, whatever the command, and no
\* Supervisor (of this or of any other account) changes
C6_UnknownServer ==
    [][\A c \in Conns :
         (/\ conn[c].pc = "cmd" /\ Moves(c)
          /\ conn'[c].nc.t = "ServerCommand"
          /\ conn'[c].nc.s \notin ServersOf(conn[c].account))
         => /\ conn'[c].pc = "done"
            /\ conn'[c].resp = Resp("UnknownServer", 0)
            /\ UNCHANGED <<supervisorVars, hist>>]_vars

\* bob asked to start "creative", a server only alice has, and was refused
C6_Witness ==
    \E c \in Conns :
        /\ conn[c].account = "bob" /\ conn[c].pc = "done"
        /\ conn[c].nc = ServerCommand("creative", Cmd("Start", 0, 0))
        /\ conn[c].resp = Resp("UnknownServer", 0)
        /\ ~should_run[<<"alice", "creative">>]

\* connection c sent cmd to alice's survival server when its status was st,
\* and has been answered
Answered(c, cmd, st) ==
    /\ conn[c].pc = "done"
    /\ conn[c].nc = ServerCommand("survival", cmd)
    /\ conn[c].seen = st

\* C7: a Start sent while the status is Idle, with no Stop after it, leads to
\* the status Running
C7_StartReachesRunning ==
    \A c \in Conns :
        Answered(c, Cmd("Start", 0, 0), "Idle")
          ~> (status[<<"alice", "survival">>] = "Running"
              \/ ~should_run[<<"alice", "survival">>])

\* C8: after a Stop sent while the status is Running, with no Start or Reboot
\* after it, should_run stays false, the status reaches Idle, and Idle is
\* set only when the child has exited or has been killed
C8_StopReachesIdle ==
    /\ [](\A s \in Servers : hist.stopped[s] => ~should_run[s])
    /\ [][\A s \in Servers :
            hist.stopped[s] /\ status[s] # "Idle" /\ status'[s] = "Idle"
              => worker'[s].child # "alive"]_vars
    /\ \A s \in Servers : hist.stopped[s] ~> (status[s] = "Idle" \/ ~hist.stopped[s])

\* C9: a Reboot sent while the status is Running, with no Stop after it, leads
\* to a second start of the child and back to Running, with should_run true
\* and the reboot flag false again
C9_RebootCycles ==
    \A c \in Conns :
        Answered(c, Cmd("Reboot", 0, 0), "Running")
          ~> (\/ /\ hist.spawned[<<"alice", "survival">>] >= 2
                 /\ status[<<"alice", "survival">>] = "Running"
                 /\ ~reboot_queued[<<"alice", "survival">>]
              \/ ~should_run[<<"alice", "survival">>])

\* C10: a Backup that the idle worker answers is answered Ok
C10_BackupOk ==
    \A c \in Conns :
        (/\ conn[c].pc = "done"
         /\ conn[c].nc = ServerCommand("survival", Cmd("Backup", 0, 0))
         /\ conn[c].resp.of # 0)
        => conn[c].resp.k = "Ok"

\* C11: a Restore that was accepted while the backup holds a file is carried
\* out to its end, the status going back to Idle and the worker to its idle
\* loop, and no worker that waits for the NOTIFICATIONS lock waits for ever
C11_RestoreFinishes ==
    /\ \A s \in Servers :
          (worker[s].pc = "restore" /\ fs[s].bak # {})
            ~> (worker[s].pc = "idle" /\ status[s] = "Idle")
    /\ \A s \in Servers :
          (worker[s].pc \in {"deadlocked", "blocked"})
            ~> (worker[s].pc \notin {"deadlocked", "blocked"})

\* C12: a Restore accepted after a Backup that ended without error, and that
\* meets no error of its own, ends with the worker idle again and the working
\* directory holding the files it held when the Backup began
C12_RoundTrip ==
    \A s \in Servers :
        (worker[s].pc = "restore" /\ hist.bakState[s] = "whole")
          ~> (/\ worker[s].pc = "idle"
              /\ fs[s].work = hist.snap[s] \/ hist.restored[s] = "failed")

\* C13: no Restore from the backup directory that a failed Backup left behind
\* ends without an error
C13_PartialBackup ==
    \A s \in Servers : ~(hist.bakState[s] = "partial" /\ hist.restored[s] = "ok")

\* the worker of s takes a command of kind k from its channel in the idle loop
Takes(s, k) ==
    /\ worker[s].pc = "idle"
    /\ cmdq[s] # <<>>
    /\ Head(cmdq[s]).cmd.k = k
    /\ cmdq'[s] = Tail(cmdq[s])

\* the worker of s answers the command it took, or is working on, with kind k
Answers(s, req, k) == respq'[s] = Append(respq[s], Resp(k, req.of))

\* C14: a Restore taken in the idle regime while there is no backup directory
\* is answered NoBackup, the status stays Idle, no notification is recorded,
\* no directory changes and the worker stays in its idle loop
C14_NoBackup ==
    [][\A s \in Servers :
         Takes(s, "Restore") /\ ~fs[s].bakDir
           => /\ Answers(s, Head(cmdq[s]), "NoBackup")
              /\ status[s] = "Idle" /\ status' = status
              /\ outbox' = outbox
              /\ fs' = fs
              /\ worker'[s].pc = "idle"]_vars

\* a Restore was answered NoBackup and the server is idle, untouched
C14_Witness ==
    \E c \in Conns :
        /\ conn[c].pc = "done"
        /\ conn[c].nc = ServerCommand("survival", Cmd("Restore", 0, 0))
        /\ conn[c].resp = Resp("NoBackup", c)
        /\ status[<<"alice", "survival">>] = "Idle"
        /\ ~fs[<<"alice", "survival">>].bakDir
        /\ fs[<<"alice", "survival">>].work = WorkFiles

\* the files of the directory dir that carry the modId of the staged archive
SameId(dir, path) == {m \in dir : m.id = (path + 1) \div 2}

\* C15: an InstallMod of a staged archive whose modId is that of a file in the
\* directory install_mod works on is answered ModConflict, and neither mod
\* directory nor the cache flag of the packaged zip changes
C15_Conflict ==
    [][\A s \in Servers :
         LET req == Head(cmdq[s])
         IN  (/\ Takes(s, "InstallMod")
              /\ req.cmd.a \in staged
              /\ SameId(fs[s].modsSub, req.cmd.a) # {})
             => /\ Answers(s, req, "ModConflict")
                /\ fs'[s].modsSub = fs[s].modsSub
                /\ fs'[s].modsTop = fs[s].modsTop
                /\ mods_up_to_date' = mods_up_to_date]_vars

\* archive 1 is installed and the InstallMod of archive 2, of the same modId,
\* was answered ModConflict
C15_Witness ==
    \E c \in Conns :
        /\ conn[c].pc = "done"
        /\ conn[c].nc = ServerCommand("survival", Cmd("InstallMod", 2, 1))
        /\ conn[c].resp = Resp("ModConflict", c)
        /\ fs[<<"alice", "survival">>].modsSub = {[name |-> 2, id |-> 1, src |-> 1]}

\* C16: when an InstallMod is answered ModConflict, the staged file is still
\* at its staging path
C16_StagedKept ==
    [][\A s \in Servers :
         LET req == Head(cmdq[s])
         IN  Takes(s, "InstallMod") /\ Answers(s, req, "ModConflict")
               => req.cmd.a \in staged']_vars

\* C17: a mod whose InstallMod was answered Ok and that has not been removed
\* since is in the directory ListMods, QueryMod and GenerateModsZip read, and
\* QueryMod finds it
C17_InstalledIsListed ==
    \A s \in Servers : \A X \in hist.installed[s] :
        X \in {m.id : m \in fs[s].modsTop} /\ query_mod(fs[s], X)

\* C18: the search for a destination name ends, whatever names are taken
C18_NameFound ==
    \A s \in Servers : worker[s].pc # "hung"

\* C19: no two files of the directory install_mod, update_mod and
\* uninstall_mod work on carry the same modId
C19_UniqueIds ==
    \A s \in Servers : \A m1 \in fs[s].modsSub, m2 \in fs[s].modsSub :
        m1.id = m2.id => m1 = m2

\* two mods are installed, one of them by an UpdateMod that was answered Ok
C19_Witness ==
    \E c \in Conns :
        /\ conn[c].pc = "done"
        /\ conn[c].nc = ServerCommand("survival", Cmd("UpdateMod", 2, 1))
        /\ conn[c].resp = Resp("Ok", c)
        /\ Cardinality(fs[<<"alice", "survival">>].modsSub) = 2
        /\ \E m \in fs[<<"alice", "survival">>].modsSub : m.src = 2

\* C20: an UpdateMod of a staged archive whose modId no file of the directory
\* carries is answered NoSuchMod and changes neither mod directory; an
\* UpdateMod answered Ok leaves exactly one file of that modId, which is the
\* staged archive, and no file under the old file's name
C20_Update ==
    [][\A s \in Servers :
         /\ LET req == Head(cmdq[s])
            IN  (/\ Takes(s, "UpdateMod")
                 /\ req.cmd.a \in staged
                 /\ SameId(fs[s].modsSub, req.cmd.a) = {})
                => /\ Answers(s, req, "NoSuchMod")
                   /\ fs'[s].modsSub = fs[s].modsSub
                   /\ fs'[s].modsTop = fs[s].modsTop
         /\ LET req == worker[s].cur
            IN  (/\ worker[s].pc = "modding"
                 /\ req.cmd.k = "UpdateMod"
                 /\ Answers(s, req, "Ok"))
                => /\ SameId(fs[s].modsSub, req.cmd.a) # {}
                   /\ Cardinality(SameId(fs'[s].modsSub, req.cmd.a)) = 1
                   /\ \A m \in SameId(fs'[s].modsSub, req.cmd.a) : m.src = req.cmd.a
                   /\ \A old \in SameId(fs[s].modsSub, req.cmd.a) :
                         old.name \notin {m.name : m \in fs'[s].modsSub}
                   /\ req.cmd.a \notin staged']_vars

\* archive 1 was installed and then replaced by archive 2 through an UpdateMod
\* that was answered Ok
C20_Witness ==
    \E c \in Conns :
        /\ conn[c].pc = "done"
        /\ conn[c].nc = ServerCommand("survival", Cmd("UpdateMod", 2, 1))
        /\ conn[c].resp = Resp("Ok", c)
        /\ fs[<<"alice", "survival">>].modsSub = {[name |-> 3, id |-> 1, src |-> 2]}
        /\ 1 \notin staged

\* the worker of s takes a mod operation from its channel and refuses it
Refuses(s) ==
    /\ cmdq[s] # <<>>
    /\ cmdq'[s] = Tail(cmdq[s])
    /\ Head(cmdq[s]).cmd.k \in {"InstallMod", "UpdateMod", "UninstallMod"}
    /\ \/ Answers(s, Head(cmdq[s]), "ModConflict")
       \/ Answers(s, Head(cmdq[s]), "NoSuchMod")

\* C21: a mod operation answered Ok leaves the cache flag of the packaged zip
\* clear, so that the next deferred GenerateModsZip writes the zip again; one
\* answered ModConflict or NoSuchMod leaves the flag as it was
C21_CacheFlag ==
    [][\A s \in Servers :
         /\ (worker[s].pc = "modding" /\ Answers(s, worker[s].cur, "Ok"))
              => ~mods_up_to_date'[s]
         /\ (worker[s].pc = "zip" /\ ~mods_up_to_date[s] /\ worker'[s] # worker[s])
              => worker'[s].pc \in {"zipping", "blocked"}
         /\ Refuses(s) => mods_up_to_date'[s] = mods_up_to_date[s]]_vars

\* the zip of the creative server was written, and then a mod operation that
\* was answered Ok cleared the flag
C21_Witness ==
    \E c \in Conns :
        /\ conn[c].pc = "done"
        /\ conn[c].nc = ServerCommand("creative", Cmd("InstallMod", 3, 1))
        /\ conn[c].resp = Resp("Ok", c)
        /\ fs[<<"alice", "creative">>].zip # {}
        /\ ~mods_up_to_date[<<"alice", "creative">>]

\* how many ZipFile notifications of the creative server alice's outbox holds
ZipFiles ==
    Cardinality({i \in DOMAIN outbox["alice"] :
                    outbox["alice"][i] = ZipFile("creative")})

\* C22: between two successful mod operations the zip of a server is written
\* at most once: a deferred GenerateModsZip that finds the flag set goes to the
\* upload without touching the zip or the status
C22_ZipOnce ==
    /\ [](\A s \in Servers : hist.zips[s] <= 1)
    /\ [][\A s \in Servers :
            (worker[s].pc = "zip" /\ mods_up_to_date[s] /\ worker'[s] # worker[s])
              => /\ worker'[s].pc = "upload"
                 /\ fs'[s].zip = fs[s].zip
                 /\ status'[s] = status[s]
                 /\ hist'.zips[s] = hist.zips[s]]_vars

\* two GenerateModsZip of the creative server have ended with a ZipFile, and
\* the zip was written once
C22_Witness ==
    /\ ZipFiles = 2
    /\ hist.zips[<<"alice", "creative">>] = 1
    /\ fs[<<"alice", "creative">>].zip # {}

\* connection c sent GenerateModsZip to alice's server `name` and was answered Ok
ZipAccepted(c, name) ==
    /\ conn[c].pc = "done"
    /\ conn[c].nc = ServerCommand(name, Cmd("GenerateModsZip", 0, 0))
    /\ conn[c].resp.k = "Ok"

\* a ZipFile or ZipFailed of alice's server `name` has been pushed
ZipReported(name) ==
    \E i \in DOMAIN outbox["alice"] :
        outbox["alice"][i] \in {ZipFile(name), ZipFailed(name)}

\* C23: a GenerateModsZip answered Ok leads to a ZipFile or ZipFailed of that
\* server and to the status of the regime that took it: Idle for the idle
\* creative server, Running for the running survival server
C23_ZipEnds ==
    \A c \in Conns :
        /\ ZipAccepted(c, "creative")
             ~> (ZipReported("creative") /\ status[<<"alice", "creative">>] = "Idle")
        /\ ZipAccepted(c, "survival")
             ~> (ZipReported("survival") /\ status[<<"alice", "survival">>] = "Running")

\* C24: the status is not Idle while the child process is alive and should_run
\* is set, whatever mod operation the running loop has carried out
C24_ModKeepsRegime ==
    \A s \in Servers :
        (worker[s].child = "alive" /\ should_run[s]) => status[s] # "Idle"

\* no outbox holds two progress notifications of one kind for one server
OnePerKindAndServer ==
    \A a \in Accounts : \A i \in DOMAIN outbox[a], j \in DOMAIN outbox[a] :
        (/\ outbox[a][i].k \in {"BackupProgress", "RestoreProgress", "ZipProgress"}
         /\ outbox[a][i].k = outbox[a][j].k
         /\ outbox[a][i].s = outbox[a][j].s)
        => i = j

\* C25: an outbox holds at most one progress notification per kind and
\* server, and a step of the worker of one server leaves the pending progress
\* notifications of the account's other servers in place
C25_ProgressPerServer ==
    [][/\ OnePerKindAndServer'
       /\ \A s \in Servers :
            worker'[s] # worker[s]
              => \A i \in DOMAIN outbox[s[1]] :
                    (/\ outbox[s[1]][i].k \in {"BackupProgress", "RestoreProgress",
                                               "ZipProgress"}
                     /\ outbox[s[1]][i].s # s[2])
                    => /\ i \in DOMAIN outbox'[s[1]]
                       /\ outbox'[s[1]][i] = outbox[s[1]][i]]_vars

\* how many times the notification n occurs in the sequence q
Count(q, n) == Cardinality({i \in DOMAIN q : q[i] = n})

\* the sequence part occurs in the sequence whole as one contiguous piece
Segment(part, whole) ==
    \E k \in 0 .. (Len(whole) - Len(part)) :
        \A i \in 1 .. Len(part) : whole[k + i] = part[i]

\* the connections that have logged in as account a
ConnsOf(a) == {c \in Conns : conn[c].account = a}

RECURSIVE Handed(_, _)
\* how many times n was handed out to the connections of cs
Handed(cs, n) ==
    IF cs = {} THEN 0
    ELSE LET c == CHOOSE x \in cs : TRUE
         IN  Count(hist.got[c], n) + Handed(cs \ {c}, n)

\* C26: every notification that is not a progress notification and was pushed
\* for an account is either still in the account's outbox or was returned by
\* exactly one Notifications request; what one request returned is one
\* contiguous piece of what was pushed, in the order of the pushes, and what
\* is still queued is the end of it
C26_DrainedOnce ==
    \A a \in Accounts :
        /\ \A i \in DOMAIN hist.pushed[a] :
              LET n == hist.pushed[a][i]
              IN  Count(hist.pushed[a], n)
                    = Handed(ConnsOf(a), n) + Count(outbox[a], n)
        /\ \A c \in ConnsOf(a) :
              /\ Segment(Terminal(hist.got[c]), hist.pushed[a])
              /\ \A i \in DOMAIN hist.got[c] :
                    Handed(ConnsOf(a), hist.got[c][i]) >= 1
        /\ \A i \in DOMAIN Terminal(outbox[a]) :
              Terminal(outbox[a])[i]
                = hist.pushed[a][Len(hist.pushed[a]) - Len(Terminal(outbox[a])) + i]

\* two Notifications requests of alice returned notifications that are not
\* progress notifications, the first of them together with a progress
\* notification
C26_Witness ==
    \E c1 \in Conns, c2 \in Conns :
        /\ c1 # c2
        /\ Terminal(hist.got[c1]) # <<>>
        /\ Terminal(hist.got[c2]) # <<>>
        /\ Len(hist.got[c1]) > Len(Terminal(hist.got[c1]))

\* the smaller of two numbers
Min(a, b) == IF a < b THEN a ELSE b

\* C27: a listing is sorted by modId; with page size 0 it is the whole list,
\* flagged as the last page; with page size n > 0, page i holds the elements
\* at the positions i*n .. i*n+n-1 of the sorted list, as far as they exist
C27_Pages ==
    LET p == hist.page
        n == p.per_page
        len == Len(p.all)
    IN  p.asked =>
          /\ \A i \in 1 .. len, j \in 1 .. len : i < j => p.all[i].id < p.all[j].id
          /\ n = 0 => p.slice = p.all /\ p.finish
          /\ n > 0 => p.slice = SubSeq(p.all, Min(p.page * n, len) + 1,
                                       Min(p.page * n + n, len))

\* C28: a step of a connection authenticated as account a changes no flag, no
\* status, no channel, no worker and no directory of a server of another
\* account, and no outbox but a's: it starts, stops, reboots and commands only
\* the server a's table holds under the requested name, and Notifications
\* returns and clears a's vector only, even when another account owns a server
\* of the same name
C28_OwnAccountOnly ==
    [][\A c \in Conns, a \in Accounts :
         (conn[c].account = a /\ Moves(c))
         => /\ \A s \in Servers :
                 s[1] # a
                 => /\ should_run'[s] = should_run[s]
                    /\ reboot_queued'[s] = reboot_queued[s]
                    /\ running'[s] = running[s]
                    /\ status'[s] = status[s]
                    /\ mods_up_to_date'[s] = mods_up_to_date[s]
                    /\ cmdq'[s] = cmdq[s]
                    /\ respq'[s] = respq[s]
                    /\ commLock'[s] = commLock[s]
                    /\ worker'[s] = worker[s]
                    /\ fs'[s] = fs[s]
            /\ \A b \in Accounts \ {a} : outbox'[b] = outbox[b]
            /\ conn[c].pc = "notifs"
               => /\ hist'.got[c] = outbox[a]
                  /\ outbox'[a] = <<>>
            /\ conn'[c].pc \in {"store", "send"}
               => conn'[c].nc.s \in ServersOf(a)]_vars

\* bob started his survival server and its notifications are pending, while
\* alice, who owns a survival server too, collected her notifications and got
\* none, and her server was never asked to run
C28_Witness ==
    \E c1 \in Conns, c2 \in Conns :
        /\ conn[c1].account = "bob" /\ conn[c1].pc = "done"
        /\ conn[c1].nc = ServerCommand("survival", Cmd("Start", 0, 0))
        /\ conn[c1].resp = Resp("Ok", 0)
        /\ should_run[<<"bob", "survival">>]
        /\ outbox["bob"] # <<>>
        /\ conn[c2].account = "alice" /\ conn[c2].pc = "done"
        /\ conn[c2].nc = Notifications
        /\ hist.got[c2] = <<>>
        /\ ~should_run[<<"alice", "survival">>]
        /\ status[<<"alice", "survival">>] = "Idle"

CopyPcs == {"backup", "bcopy", "restore", "rcopy"}

\* C30: the worker is inside a deferred Backup or Restore only with no child
\* held, and the working and the backup directory change only in such a
\* position; a Backup or Restore read by client_loop while the status is not
\* Idle is answered InvalidState at once and reaches no worker; one that the
\* worker takes from its channel in the running loop is answered InvalidState
\* and changes no directory
C30_CopyOnlyWhenIdle ==
    /\ [](\A s \in Servers : worker[s].pc \in CopyPcs => worker[s].child # "alive")
    /\ [][\A s \in Servers :
            (\/ fs'[s].work # fs[s].work
             \/ fs'[s].bak # fs[s].bak
             \/ fs'[s].bakDir # fs[s].bakDir)
            => worker[s].pc \in CopyPcs /\ worker[s].child # "alive"]_vars
    /\ [][\A c \in Conns :
            (/\ conn[c].pc = "cmd" /\ Moves(c)
             /\ conn'[c].nc.t = "ServerCommand"
             /\ conn'[c].nc.s \in ServersOf(conn[c].account)
             /\ conn'[c].nc.c.k \in {"Backup", "Restore"}
             /\ status[<<conn[c].account, conn'[c].nc.s>>] # "Idle")
            => /\ conn'[c].pc = "done"
               /\ conn'[c].resp = Resp("InvalidState", 0)
               /\ UNCHANGED <<supervisorVars, hist>>]_vars
    /\ [][\A s \in Servers :
            (/\ worker[s].pc = "loop"
             /\ cmdq[s] # <<>>
             /\ Head(cmdq[s]).cmd.k \in {"Backup", "Restore"}
             /\ cmdq'[s] # cmdq[s]
             /\ worker'[s] # worker[s] \/ respq'[s] # respq[s])
            => /\ respq'[s] = Append(respq[s], Resp("InvalidState", Head(cmdq[s]).of))
               /\ worker'[s].pc = "loop"
               /\ status'[s] = status[s]
               /\ fs' = fs]_vars

\* a Backup that client_loop let through, because the status it read was Idle,
\* reached the worker in its running loop and came back as InvalidState; the
\* child is still held and the directories are as they were
C30_Witness ==
    \E c \in Conns :
        LET s == <<"alice", "survival">> IN
        /\ conn[c].account = "alice" /\ conn[c].pc = "done"
        /\ conn[c].nc = ServerCommand("survival", Cmd("Backup", 0, 0))
        /\ conn[c].seen = "Idle"
        /\ conn[c].resp = Resp("InvalidState", c)
        /\ worker[s].pc = "loop" /\ worker[s].child = "alive"
        /\ fs[s].work = WorkFiles /\ fs[s].bak = WorkFiles
        /\ hist.jobs = {}

\* how many notifications of kind k the vector q holds for server name n
Failures(q, k, n) ==
    Cardinality({i \in 1 .. Len(q) : q[i].k = k /\ q[i].s = n})

\* C31: a Backup or Restore in which a copy failed stops there: the worker
\* goes back to its idle loop with the status Idle, and the step that ends the
\* operation appends exactly one BackupFailed (RestoreFailed) of that server
C31_CopyFailure ==
    /\ \A s \in Servers :
          (worker[s].pc \in {"bcopy", "rcopy"} /\ worker[s].failed)
            ~> (worker[s].pc = "idle" /\ status[s] = "Idle")
    /\ [][\A s \in Servers :
            (worker[s].pc \in {"bcopy", "rcopy"} /\ worker[s].failed
               /\ worker'[s] # worker[s])
            => LET k == IF worker[s].pc = "bcopy" THEN "BackupFailed"
                        ELSE "RestoreFailed"
               IN  /\ worker'[s].pc = "idle" /\ status'[s] = "Idle"
                   /\ Failures(outbox'[s[1]], k, s[2])
                        = Failures(outbox[s[1]], k, s[2]) + 1]_vars

\* n is no progress notification
IsTerminal(n) == n.k \notin ProgressKinds

\* C32: in every step, an account's vector is either taken whole by a
\* Notifications request of that account, or it keeps every terminal
\* notification (BackupFailed, RestoreFailed, ZipFailed, ZipFile,
\* StatusChanged) at the index it had, unchanged, and every terminal
\* notification that is new lies behind all the elements the vector had
C32_TerminalKept ==
    [][\A a \in Accounts :
         \/ /\ outbox'[a] = <<>>
            /\ \E c \in Conns : /\ conn[c].pc = "notifs" /\ conn[c].account = a
                                /\ conn'[c].pc = "done"
                                /\ hist'.got[c] = outbox[a]
         \/ /\ Len(outbox'[a]) >= Len(outbox[a])
            /\ \A i \in 1 .. Len(outbox[a]) :
                  /\ IsTerminal(outbox[a][i]) => outbox'[a][i] = outbox[a][i]
                  /\ IsTerminal(outbox'[a][i]) => outbox'[a][i] = outbox[a][i]
            /\ Terminal(outbox'[a])
                 = Terminal(outbox[a])
                     \o Terminal(SubSeq(outbox'[a], Len(outbox[a]) + 1, Len(outbox'[a])))]_vars

\* alice's vector holds a terminal notification in front of a progress
\* notification that was replaced at least once, and another terminal
\* notification behind it
C32_Witness ==
    \E i \in 1 .. Len(outbox["alice"]), j \in 1 .. Len(outbox["alice"]),
       k \in 1 .. Len(outbox["alice"]) :
        /\ i < j /\ j < k
        /\ IsTerminal(outbox["alice"][i])
        /\ outbox["alice"][j].k = "BackupProgress"
        /\ outbox["alice"][j].copied = DirSize(WorkFiles)
        /\ IsTerminal(outbox["alice"][k])

\* C33: a server's channel changes only by a network thread appending its
\* command at the end or by the worker, in its idle or its running loop, taking
\* the command at the front; and every command on the channel is taken
C33_ChannelOrder ==
    /\ [][\A s \in Servers :
            cmdq'[s] # cmdq[s]
            => \/ \E c \in Conns :
                    /\ conn[c].pc = "send" /\ conn'[c].pc = "wait"
                    /\ cmdq'[s] = Append(cmdq[s], Req(conn[c].nc.c, c))
               \/ /\ cmdq[s] # <<>>
                  /\ cmdq'[s] = Tail(cmdq[s])
                  /\ worker[s].pc \in {"idle", "loop"}
                  /\ worker'[s] # worker[s] \/ respq'[s] # respq[s]]_vars
    /\ \A s \in Servers : (cmdq[s] # <<>>) ~> (cmdq[s] = <<>>)

\* C34: when the status of the server comes to satisfy the predicate and stays
\* so, every thread inside wait_for returns
C34_WaiterReturns ==
    <>[]WaitPredicate(status[WaitServer])
      => <>[](\A c \in Conns : conn[c].pc \notin WaitPcs)

\* C35: a frame that was sent carries the serialized payload followed by
\* between 1 and BlockBytes zero bytes, up to a positive multiple of
\* BlockBytes; its length field is the length of its ciphertext; and what the
\* receiver decodes with the same key is the payload that was sent, none of the
\* padding included
C35_FramesRoundTrip ==
    LET f == hist.frame
        n == Len(f.plain) - Len(f.ser)
    IN  f.stage # "none"
        => /\ n \in 1 .. BlockBytes
           /\ Len(f.plain) > 0 /\ Len(f.plain) % BlockBytes = 0
           /\ SubSeq(f.plain, 1, Len(f.ser)) = f.ser
           /\ \A i \in Len(f.ser) + 1 .. Len(f.plain) : f.plain[i] = 0
           /\ f.ser = <<Len(f.payload)>> \o f.payload
           /\ f.wire.len = Len(f.wire.body)
           /\ f.stage = "received" => f.decoded = f.payload

\* a payload that ends in a zero byte and whose serialized form fills a block
\* exactly, so that a whole block of zeros follows it, was sent and received
C35_Witness ==
    LET f == hist.frame IN
    /\ f.stage = "received"
    /\ Len(f.ser) = BlockBytes
    /\ f.payload[Len(f.payload)] = 0
    /\ Len(f.plain) = 2 * BlockBytes
    /\ f.decoded = f.payload

\* C36: a command that the worker takes in its running loop and finishes in
\* that step (every command but a listing and a mod operation that goes ahead)
\* is answered with one Response, a mod operation at the step that finishes
\* it; and the status goes to Stopping only because should_run is clear, a
\* reboot is queued or the child has exited
C36_FailureAnswered ==
    [][\A s \in Servers :
         /\ (/\ worker[s].pc = "loop"
             /\ cmdq[s] # <<>>
             /\ cmdq'[s] = Tail(cmdq[s])
             /\ Head(cmdq[s]).cmd.k # "ListMods"
             /\ worker'[s].pc # "modding")
            => /\ Len(respq'[s]) = Len(respq[s]) + 1
               /\ respq'[s][Len(respq'[s])].of = Head(cmdq[s]).of
               /\ worker'[s].pc = "loop"
         /\ (worker[s].pc = "modding" /\ worker[s].back = "loop"
               /\ worker'[s].pc # "modding")
            => /\ Len(respq'[s]) = Len(respq[s]) + 1
               /\ worker'[s].pc = "loop"
         /\ (status'[s] = "Stopping" /\ status[s] # "Stopping")
            => \/ ~should_run[s]
               \/ reboot_queued[s]
               \/ worker'[s].child # "alive"]_vars

\* C37: whenever no network thread is inside Server::start, stop or reboot,
\* the running flag of every server in the configuration equals its should_run
C37_FlagsAgree ==
    (\A c \in Conns : conn[c].pc \notin {"store", "persist", "rebootflag"})
    => \A s \in Servers : running[s] = should_run[s]

\* C38: while the cache flag of the zip is set, the archive holds exactly the
\* files of the directory in which mods are installed, updated and uninstalled
C38_CacheValid ==
    \A s \in Servers :
        mods_up_to_date[s] => fs[s].zip = Names(WriteDir(fs[s]))

\* C39: for every page size and page index of the word, ListMods is answered
\* with a contiguous slice of the sorted list, the products and sums of the
\* page arithmetic stay within the word, and the worker thread survives
C39_NoOverflow ==
    /\ \A s \in Servers : worker[s].pc # "dead"
    /\ LET p == hist.page
           len == Len(p.all)
       IN  p.asked =>
             /\ p.per_page * p.page + p.per_page <= MaxWord
             /\ \E a \in 1 .. len + 1, b \in 0 .. len : p.slice = SubSeq(p.all, a, b)

\* C40: with a page size n > 0 whose page arithmetic fits the word, the
\* last-page flag of a listing is true exactly when (page + 1) * n is at least
\* the number of mods, a full final page included
C40_LastPageFlag ==
    LET p == hist.page
        n == p.per_page
    IN  (p.asked /\ n > 0 /\ p.page * n + n <= MaxWord) =>
            (p.finish <=> (p.page + 1) * n >= Len(p.all))

====
